---- MODULE Spec2Model ----
(***************************************************************************)
(* A model of the israeli-iptv providers: the TTL caches of BaseProvider   *)
(* (base_provider.py), the static-table resolver (reshet13_module.py), the *)
(* scrape-and-extract resolver (kan_module.py) and the ticket-negotiation  *)
(* resolver (keshet_module.py).                                            *)
(*                                                                         *)
(* Strings are sequences of tokens: "https://host/p" is                    *)
(* <<"https", "://", "host/p">>.  The string operations of the code        *)
(* (startswith, replace, find, slicing, concatenation) are computed on     *)
(* these sequences.  A Python value is a record [k, v]: k is "str" (v the  *)
(* token sequence), "None", or "raise" (v names the exception).            *)
(***************************************************************************)
EXTENDS Integers, Sequences, FiniteSets, TLC

VARIABLES
    now,          \* time.time(), in seconds
    cache,        \* BaseProvider._cache: key -> {'data', 't'}
    link_cache,   \* BaseProvider._link_cache: key -> {'url', 't'}
    last,         \* the last call made on the provider and what it returned
    hist,         \* history: per cache, the last store under each key since the last clear
    first,        \* history: the first result of resolve_url per (url, prefer_http)
    calls,        \* the resolve_url calls in progress on concurrent threads: caller -> frame
    world         \* what the run works on: the references used, the upstream's answers

vars == <<now, cache, link_cache, last, hist, first, calls, world>>

----------------------------------------------------------------------------
(* Bounds of the model *)

\* The clock advances in steps of ClockStep seconds, MaxTicks times at most.
ClockStep == 300
MaxTicks == 2
MaxNow == MaxTicks * ClockStep

----------------------------------------------------------------------------
(* Python values *)

Str(s) == [k |-> "str", v |-> s]
None == [k |-> "None", v |-> <<>>]
Raise(e) == [k |-> "raise", v |-> <<e>>]

\* bool(x) for a str or None
Truthy(x) == x.k = "str" /\ x.v # <<>>

\* s.startswith(p)
StartsWith(s, p) == Len(s) >= Len(p) /\ SubSeq(s, 1, Len(p)) = p

\* s.replace(old, new): every non-overlapping occurrence, left to right
RECURSIVE Replace(_, _, _)
Replace(s, old, new) ==
    IF s = <<>> \/ old = <<>> THEN s
    ELSE IF StartsWith(s, old)
         THEN new \o Replace(SubSeq(s, Len(old) + 1, Len(s)), old, new)
         ELSE <<Head(s)>> \o Replace(Tail(s), old, new)

\* sub in s
Contains(s, sub) == \E i \in 1..(Len(s) - Len(sub) + 1) : SubSeq(s, i, i + Len(sub) - 1) = sub

\* s.find(sub) and s.rfind(sub), 0-based, -1 when absent
Occurrences(s, sub) == {i \in 1..(Len(s) - Len(sub) + 1) : SubSeq(s, i, i + Len(sub) - 1) = sub}
Min(S) == CHOOSE x \in S : \A y \in S : x <= y
Max(S) == CHOOSE x \in S : \A y \in S : x >= y
Find(s, sub) == IF Occurrences(s, sub) = {} THEN -1 ELSE Min(Occurrences(s, sub)) - 1
RFind(s, sub) == IF Occurrences(s, sub) = {} THEN -1 ELSE Max(Occurrences(s, sub)) - 1

HTTPS == <<"https", "://">>
HTTP == <<"http", "://">>

----------------------------------------------------------------------------
(* base_provider.py: the caches *)

LINK_CACHE_TIME == 10 * 60

EmptyDict == [x \in {} |-> x]

\* dict.get(field) on a cache entry
EntryGet(entry, fld) == IF fld \in DOMAIN entry THEN entry[fld] ELSE None

IsCacheValidInclusive(cache_entry, ttl) ==
    IF DOMAIN cache_entry = {} \/ "t" \notin DOMAIN cache_entry THEN FALSE
    ELSE now - cache_entry["t"] <= ttl

\* _is_cache_valid
IsCacheValid(cache_entry, ttl) ==
    IF DOMAIN cache_entry = {} \/ "t" \notin DOMAIN cache_entry THEN FALSE
    ELSE now - cache_entry["t"] < ttl

\* _get_from_cache(key, ttl) with a ttl given
GetFromCache(key, ttl) ==
    IF key \in DOMAIN cache /\ DOMAIN cache[key] # {} /\ IsCacheValid(cache[key], ttl)
    THEN EntryGet(cache[key], "data")
    ELSE None

\* _get_from_cache(key): ttl is None, so LINK_CACHE_TIME
GetFromCacheDefault(key) == GetFromCache(key, LINK_CACHE_TIME)

\* _get_from_link_cache(key)
GetFromLinkCache(key) ==
    IF key \in DOMAIN link_cache /\ DOMAIN link_cache[key] # {}
       /\ IsCacheValid(link_cache[key], LINK_CACHE_TIME)
    THEN EntryGet(link_cache[key], "url")
    ELSE None

\* d[key] = entry
DictSet(d, key, entry) == [x \in DOMAIN d \cup {key} |-> IF x = key THEN entry ELSE d[x]]

\* _set_cache(key, data): the dict after the store
SetCache(key, data) == DictSet(cache, key, [data |-> data, t |-> now])

SetLinkCacheEvicting(key, url) ==
    LET fresh == {x \in DOMAIN link_cache : now - link_cache[x].t < LINK_CACHE_TIME}
    IN [x \in fresh \cup {key} |-> IF x = key THEN [url |-> url, t |-> now] ELSE link_cache[x]]

\* _set_link_cache(key, url): the dict after the store
SetLinkCache(key, url) == DictSet(link_cache, key, [url |-> url, t |-> now])

Idle == [op |-> "none"]

\* no resolve_url call is in progress on another thread
NoCalls == EmptyDict

\* the history of stores of one cache (c is "cache" or "link")
HistSet(c, key, value) ==
    [hist EXCEPT ![c] = DictSet(hist[c], key, [v |-> value, t |-> now])]
HistClear == [c \in {"cache", "link"} |-> EmptyDict]

\* time passes
Tick ==
    /\ now + ClockStep <= MaxNow
    /\ now' = now + ClockStep
    /\ last' = Idle
    /\ UNCHANGED <<cache, link_cache, hist, first, world, calls>>

\* clear_cache()
ClearCache ==
    /\ cache' = EmptyDict
    /\ link_cache' = EmptyDict
    /\ hist' = HistClear
    /\ last' = [op |-> "clear_cache"]
    /\ UNCHANGED <<now, first, world, calls>>

----------------------------------------------------------------------------
(* The caches alone: any sequence of set, get, clear and clock advances *)

CacheKeys == {<<"k1">>, <<"k2">>}
CacheValues == {Str(<<"v1">>), Str(<<"v2">>)}
TTLs == {0, ClockStep, LINK_CACHE_TIME, 720}

DoSetCache(key, data) ==
    /\ cache' = SetCache(key, data)
    /\ hist' = HistSet("cache", key, data)
    /\ last' = [op |-> "_set_cache"]
    /\ UNCHANGED <<now, link_cache, first, world, calls>>

DoSetLinkCache(key, url) ==
    /\ link_cache' = SetLinkCache(key, url)
    /\ hist' = HistSet("link", key, url)
    /\ last' = [op |-> "_set_link_cache"]
    /\ UNCHANGED <<now, cache, first, world, calls>>

DoGetFromCache(key, ttl) ==
    /\ last' = [op |-> "_get_from_cache", c |-> "cache", key |-> key, ttl |-> ttl,
                ret |-> GetFromCache(key, ttl)]
    /\ UNCHANGED <<now, cache, link_cache, hist, first, world, calls>>

DoGetFromCacheDefault(key) ==
    /\ last' = [op |-> "_get_from_cache", c |-> "cache", key |-> key, ttl |-> LINK_CACHE_TIME,
                ret |-> GetFromCacheDefault(key)]
    /\ UNCHANGED <<now, cache, link_cache, hist, first, world, calls>>

DoGetFromLinkCache(key) ==
    /\ last' = [op |-> "_get_from_link_cache", c |-> "link", key |-> key,
                ttl |-> LINK_CACHE_TIME, ret |-> GetFromLinkCache(key)]
    /\ UNCHANGED <<now, cache, link_cache, hist, first, world, calls>>

NoWorld == [kind |-> "none"]

Init ==
    /\ now = 0
    /\ cache = EmptyDict
    /\ link_cache = EmptyDict
    /\ last = Idle
    /\ hist = HistClear
    /\ first = EmptyDict
    /\ calls = NoCalls
    /\ world = NoWorld

Next ==
    \/ Tick
    \/ ClearCache
    \/ \E key \in CacheKeys, data \in CacheValues : DoSetCache(key, data)
    \/ \E key \in CacheKeys, url \in CacheValues : DoSetLinkCache(key, url)
    \/ \E key \in CacheKeys, ttl \in TTLs : DoGetFromCache(key, ttl)
    \/ \E key \in CacheKeys : DoGetFromCacheDefault(key)
    \/ \E key \in CacheKeys : DoGetFromLinkCache(key)

Spec == Init /\ [][Next]_vars

\* C1: a lookup of key k with time-to-live ttl, in either cache, returns the
\* value last stored under k exactly when such a store happened since the last
\* clear and now - (time of that store) < ttl; otherwise it is a miss (None),
\* and it never raises.
C1_LookupHitIffFresh ==
    last.op \in {"_get_from_cache", "_get_from_link_cache"} =>
        LET h == hist[last.c]
            fresh == last.key \in DOMAIN h /\ now - h[last.key].t < last.ttl
        IN /\ last.ret.k # "raise"
           /\ fresh => last.ret = h[last.key].v
           /\ ~fresh => last.ret = None

\* a lookup exactly ttl seconds after the store: a miss, though the entry is there
C1_Witness ==
    /\ last.op = "_get_from_link_cache"
    /\ last.key \in DOMAIN link_cache
    /\ now - link_cache[last.key].t = last.ttl
    /\ last.ret = None

\* C27: entries are never evicted by expiry.  Between two clear_cache calls
\* no lookup, store or advance of the clock removes a key from the content
\* cache or from the link cache, and only a store changes an entry; clear_cache
\* empties both caches; and a lookup of a key not stored since the last
\* clear_cache is a miss.
C27_NoEvictionByExpiry ==
    [][/\ last'.op # "clear_cache" =>
            /\ DOMAIN cache \subseteq DOMAIN cache'
            /\ DOMAIN link_cache \subseteq DOMAIN link_cache'
            /\ last'.op # "_set_cache" => cache' = cache
            /\ last'.op # "_set_link_cache" => link_cache' = link_cache
       /\ last'.op = "clear_cache" => cache' = EmptyDict /\ link_cache' = EmptyDict
       /\ last'.op \in {"_get_from_cache", "_get_from_link_cache"}
          /\ last'.key \notin DOMAIN hist'[last'.c] => last'.ret = None]_vars

\* both caches hold an expired entry, and a lookup of the content cache's
\* entry has just missed: the entries are still in the stores
C27_Witness ==
    /\ last.op = "_get_from_cache" /\ last.ret = None
    /\ last.key \in DOMAIN cache
    /\ last.ttl > 0 /\ now - cache[last.key].t >= last.ttl
    /\ \E k \in DOMAIN link_cache : now - link_cache[k].t >= LINK_CACHE_TIME

----------------------------------------------------------------------------
(* reshet13_module.py: the static-table resolver *)

RESHET13 == <<"reshet13", "://">>

\* CHANNEL_13_STREAMS: channel id -> stream_data["link"]
CHANNEL_13_STREAMS ==
    [id \in {<<"13b">>, <<"13b2">>, <<"13c">>, <<"bb">>,
             <<"13comedy">>, <<"13nofesh">>, <<"13reality">>} |->
        CASE id = <<"13b">> ->
               HTTPS \o <<"d18b0e6mopany4.cloudfront.net/out/v1/2f2bc414a3db4698a8e94b89eaf2da2a/index.m3u8">>
          [] id = <<"13b2">> ->
               HTTPS \o <<"d2xg1g9o5vns8m.cloudfront.net/out/v1/0855d703f7d5436fae6a9c7ce8ca5075/index.m3u8">>
          [] id = <<"13c">> ->
               HTTPS \o <<"reshet.g-mana.live/media/4607e158-e4d4-4e18-9160-3dc3ea9bc677/mainManifest.m3u8">>
          [] id = <<"bb">> ->
               HTTPS \o <<"d2lckchr9cxrss.cloudfront.net/out/v1/c73af7694cce4767888c08a7534b503c/index.m3u8">>
          [] id = <<"13comedy">> ->
               HTTPS \o <<"d15ds134q59udk.cloudfront.net/out/v1/fbba879221d045598540ee783b140fe2/index.m3u8">>
          [] id = <<"13nofesh">> ->
               HTTPS \o <<"d1yd8hohnldm33.cloudfront.net/out/v1/19dee23c2cc24f689bd4e1288661ee0c/index.m3u8">>
          [] OTHER ->
               HTTPS \o <<"d2dffl3588mvfk.cloudfront.net/out/v1/d8e15050ca4148aab0ee387a5e2eb46b/index.m3u8">>]

CacheKeyNoPreference(url, prefer_http) == url

CacheKeyNoUrl(url, prefer_http) == <<"_", IF prefer_http THEN "http" ELSE "https">>

\* cache_key = f"{url}_{'http' if prefer_http else 'https'}"
CacheKey(url, prefer_http) == url \o <<"_", IF prefer_http THEN "http" ELSE "https">>

ReshetStreamUrlAlwaysHttp(stream_url, prefer_http) == Replace(stream_url, HTTPS, HTTP)

\* the protocol preference applied to the table's link
ReshetStreamUrl(stream_url, prefer_http) ==
    IF prefer_http /\ StartsWith(stream_url, HTTPS)
    THEN Replace(stream_url, HTTPS, HTTP)
    ELSE stream_url

ReshetStoreOnFailure(cache_key) == SetLinkCache(cache_key, None)

\* the link cache after a resolve that fails: no store
ReshetNoStore(cache_key) == link_cache

ReshetResolveUrlSliding(url, prefer_http) ==
    LET cache_key == CacheKey(url, prefer_http)
        cached_url == GetFromLinkCache(cache_key)
    IN IF Truthy(cached_url)
       THEN [ret |-> cached_url, hit |-> TRUE, link_cache |-> SetLinkCache(cache_key, cached_url)]
       ELSE IF StartsWith(url, RESHET13)
       THEN LET channel_id == Replace(url, RESHET13, <<>>)
            IN IF channel_id \notin DOMAIN CHANNEL_13_STREAMS
               THEN [ret |-> None, hit |-> FALSE, link_cache |-> ReshetNoStore(cache_key)]
               ELSE LET stream_url == ReshetStreamUrl(CHANNEL_13_STREAMS[channel_id], prefer_http)
                    IN [ret |-> Str(stream_url), hit |-> FALSE,
                        link_cache |-> SetLinkCache(cache_key, Str(stream_url))]
       ELSE [ret |-> None, hit |-> FALSE, link_cache |-> ReshetNoStore(cache_key)]

\* Reshet13Provider.resolve_url(url, prefer_http=...): what it returns and the
\* link cache it leaves
ReshetResolveUrl(url, prefer_http) ==
    LET cache_key == CacheKey(url, prefer_http)
        cached_url == GetFromLinkCache(cache_key)
    IN IF Truthy(cached_url)
       THEN [ret |-> cached_url, hit |-> TRUE, link_cache |-> link_cache]
       ELSE IF StartsWith(url, RESHET13)
       THEN LET channel_id == Replace(url, RESHET13, <<>>)
            IN IF channel_id \notin DOMAIN CHANNEL_13_STREAMS
               THEN [ret |-> None, hit |-> FALSE, link_cache |-> ReshetNoStore(cache_key)]
               ELSE LET stream_url == ReshetStreamUrl(CHANNEL_13_STREAMS[channel_id], prefer_http)
                    IN [ret |-> Str(stream_url), hit |-> FALSE,
                        link_cache |-> SetLinkCache(cache_key, Str(stream_url))]
       ELSE [ret |-> None, hit |-> FALSE, link_cache |-> ReshetNoStore(cache_key)]

\* the references a caller may pass: every table identifier, identifiers that
\* are not in the table, and inputs that are no reshet13:// reference
ReshetRefs ==
    {RESHET13 \o id : id \in DOMAIN CHANNEL_13_STREAMS}
    \cup {RESHET13 \o <<"13">>, RESHET13 \o <<"nope">>, RESHET13,
          RESHET13 \o RESHET13 \o <<"13b">>,
          <<"13b">>, HTTPS \o <<"13tv.co.il/live/">>}

\* one run resolves two references, any number of times, under both preferences:
\* any reference, and beside it a table identifier or an unknown one
ReshetOtherRefs == {RESHET13 \o <<"13b">>, RESHET13 \o <<"nope">>}
ReshetWorlds == {[kind |-> "reshet", refs |-> {a, b}] : a \in ReshetRefs, b \in ReshetOtherRefs}

ReshetResolve(url, prefer_http) ==
    LET r == ReshetResolveUrl(url, prefer_http)
    IN /\ link_cache' = r.link_cache
       /\ last' = [op |-> "resolve_url", url |-> url, prefer_http |-> prefer_http,
                   ret |-> r.ret, hit |-> r.hit,
                   seen |-> <<url, prefer_http>> \in DOMAIN first]
       /\ first' = IF <<url, prefer_http>> \in DOMAIN first THEN first
                   ELSE DictSet(first, <<url, prefer_http>>, r.ret)
       /\ UNCHANGED <<now, cache, hist, world, calls>>

InitReshet ==
    /\ now = 0
    /\ cache = EmptyDict
    /\ link_cache = EmptyDict
    /\ last = Idle
    /\ hist = HistClear
    /\ first = EmptyDict
    /\ calls = NoCalls
    /\ world \in ReshetWorlds

NextReshet ==
    \/ Tick
    \/ ClearCache
    \/ \E url \in world.refs, prefer_http \in BOOLEAN : ReshetResolve(url, prefer_http)

SpecReshet == InitReshet /\ [][NextReshet]_vars

\* C2: two resolve calls with the same reference and preference return the
\* same result, whether the later one is served from the link cache or
\* recomputed after expiry or after clear_cache, whatever was resolved in between.
C2_ResolveDeterministic ==
    last.op = "resolve_url" /\ world.kind = "reshet" =>
        last.ret = first[<<last.url, last.prefer_http>>]

\* a repeated resolve that was recomputed (the entry had expired or was cleared)
C2_Witness ==
    /\ last.op = "resolve_url" /\ world.kind = "reshet"
    /\ last.seen /\ ~last.hit /\ Truthy(last.ret)
    /\ Cardinality(DOMAIN first) >= 3

\* C3: a resolve made with HTTP preference never returns a URL starting with
\* https://, whatever was resolved and cached before.
C3_HttpPreferenceNeverHttps ==
    last.op = "resolve_url" /\ world.kind = "reshet" /\ last.prefer_http /\ last.ret.k = "str" =>
        ~StartsWith(last.ret.v, HTTPS)

\* an HTTP-preference resolve right after an HTTPS-preference resolve of the
\* same reference is in the cache
C3_Witness ==
    /\ last.op = "resolve_url" /\ world.kind = "reshet"
    /\ last.prefer_http /\ Truthy(last.ret)
    /\ CacheKey(last.url, FALSE) \in DOMAIN link_cache
    /\ IsCacheValid(link_cache[CacheKey(last.url, FALSE)], LINK_CACHE_TIME)
    /\ StartsWith(link_cache[CacheKey(last.url, FALSE)].url.v, HTTPS)

\* C4: for every identifier of the table, reshet13://<identifier> resolves
\* under HTTP preference to the table URL with https:// replaced by http://,
\* and under HTTPS preference to the table URL unchanged.
C4_TableUrlPerPreference ==
    \A id \in DOMAIN CHANNEL_13_STREAMS :
        last.op = "resolve_url" /\ world.kind = "reshet" /\ last.url = RESHET13 \o id =>
            /\ CHANNEL_13_STREAMS[id][1] = "https" /\ CHANNEL_13_STREAMS[id][2] = "://"
            /\ last.ret = Str(<<IF last.prefer_http THEN "http" ELSE "https">>
                              \o Tail(CHANNEL_13_STREAMS[id]))

\* 13b resolved under HTTP preference, from the cache
C4_Witness ==
    /\ last.op = "resolve_url" /\ world.kind = "reshet"
    /\ last.url = RESHET13 \o <<"13b">> /\ last.prefer_http /\ last.hit
    /\ last.ret = Str(<<"http", "://",
           "d18b0e6mopany4.cloudfront.net/out/v1/2f2bc414a3db4698a8e94b89eaf2da2a/index.m3u8">>)

\* the resolve calls that must fail: the identifier is not in the table, or the
\* input does not start with reshet13://
ReshetMustFail(url) ==
    \/ ~StartsWith(url, RESHET13)
    \/ Replace(url, RESHET13, <<>>) \notin DOMAIN CHANNEL_13_STREAMS

C29_NoSlidingExpiration ==
    [][/\ last'.op = "resolve_url" /\ world.kind = "reshet" =>
            LET key == CacheKey(last'.url, last'.prefer_http)
                young == key \in DOMAIN link_cache
                         /\ now - link_cache[key].t < LINK_CACHE_TIME
            IN /\ last'.hit <=> young
               /\ young => last'.ret = link_cache[key].url /\ link_cache' = link_cache
               /\ key \in DOMAIN link_cache /\ ~young =>
                     /\ \A k \in DOMAIN link_cache \ {key} :
                            k \in DOMAIN link_cache' /\ link_cache'[k] = link_cache[k]
                     /\ IF Truthy(last'.ret)
                        THEN link_cache'[key] = [url |-> last'.ret, t |-> now]
                        ELSE link_cache' = link_cache
       /\ last'.op = "none" => link_cache' = link_cache]_vars

\* a reference resolved again LINK_CACHE_TIME seconds or more after the start:
\* the resolve was not served from the cache and the entry carries the current
\* time, while the entry of the other preference, stored at the start, is
\* still there with its old timestamp
C29_Witness ==
    /\ world.kind = "reshet"
    /\ last.op = "resolve_url" /\ last.seen /\ ~last.hit /\ Truthy(last.ret)
    /\ now >= LINK_CACHE_TIME
    /\ link_cache[CacheKey(last.url, last.prefer_http)] = [url |-> last.ret, t |-> now]
    /\ CacheKey(last.url, ~last.prefer_http) \in DOMAIN link_cache
    /\ link_cache[CacheKey(last.url, ~last.prefer_http)].t = 0

----------------------------------------------------------------------------
(* kan_module.py: the scrape-and-extract resolver *)

\* A fetched document is what the extraction patterns find in it: for each
\* pattern, no match (NoMatch) or the text of its group.
NoMatch == [m |-> FALSE, g |-> <<>>]
Match(g) == [m |-> TRUE, g |-> g]

\* the empty text "": nothing matches
EmptyText ==
    [dailymotion |-> NoMatch, bynetURL |-> NoMatch, UrlRedirector |-> NoMatch,
     hls |-> NoMatch, kaltura |-> NoMatch, kalturaJson |-> None]

\* the upstream's answer to a page fetch: a status and a body, or a network error
KanResponse(status, text) == [status |-> status, text |-> text]

\* _get_cf(url): the body of a 200 answer, "" for anything else
KanGetCf(resp) == IF resp.status = "200" THEN resp.text ELSE EmptyText

\* _get_cached(url) as resolve_url, get_vods and _get_json_script call it: ttl is
\* None, and line 60 reads self.CACHE_TIME, an attribute that neither KanProvider
\* nor BaseProvider (which has LINK_CACHE_TIME only) defines
KanGetCachedDefault(url, resp) ==
    [ret |-> Raise("AttributeError"), text |-> EmptyText, cache |-> cache]

\* _get_cached(url, ttl) with a ttl given: through the content cache
KanGetCached(url, ttl, resp) ==
    LET cached == GetFromCache(url, ttl)
    IN IF cached # None
       THEN [ret |-> cached, text |-> cached.v, cache |-> cache]
       ELSE LET body == KanGetCf(resp)
            IN [ret |-> Str(<<"body">>), text |-> body,
                cache |-> IF body # EmptyText
                          THEN SetCache(url, [k |-> "str", v |-> body])
                          ELSE cache]

\* the key of the link-cache lookup and store: page_url itself
KanLinkCacheKey(page_url, prefer_http) == page_url

\* lines 167-171: the URL that is fetched
KanNormalize(page_url, prefer_http) ==
    LET u1 == IF prefer_http THEN Replace(page_url, <<"https">>, <<"http">>) ELSE page_url
        i == RFind(u1, HTTP)
        u2 == IF i > 0 THEN SubSeq(u1, i + 1, Len(u1)) ELSE u1
    IN Replace(u2, <<"HLS/HLS">>, <<"HLS">>)

DAILYMOTION_EMBED == HTTPS \o <<"www.dailymotion.com/embed/video/">>

\* re.search(r'media\.(ma)?kan\.org\.il', url)
KanIsMediaHost(url) ==
    \E i \in 1..Len(url) : url[i] \in {"media.kan.org.il", "media.makan.org.il"}

\* lines 176-203: the extraction chain; "" (<<>>) stands for resolved = None
KanExtract(url, text) ==
    LET r1 == IF text.dailymotion.m THEN DAILYMOTION_EMBED \o text.dailymotion.g ELSE <<>>
        m2 == IF text.bynetURL.m THEN text.bynetURL ELSE text.UrlRedirector
        r2 == IF r1 = <<>> /\ Contains(url, <<"ByPlayer">>) /\ m2.m
              THEN Replace(Replace(m2.g, <<"https">>, <<"http">>), <<"\\u0026">>, <<"&">>)
              ELSE r1
        r3 == IF r2 = <<>> /\ KanIsMediaHost(url) /\ text.hls.m THEN text.hls.g ELSE r2
        r4 == IF r3 = <<>> /\ Contains(url, <<"kaltura">>) /\ text.kaltura.m
                 /\ text.kalturaJson.k = "str"
              THEN text.kalturaJson.v
              ELSE r3
    IN r4

\* KanProvider.resolve_url(page_url, prefer_http=...): what it returns or
\* raises, and the caches it leaves
KanResolveUrl(page_url, prefer_http, resp) ==
    LET key == KanLinkCacheKey(page_url, prefer_http)
        cached_url == GetFromLinkCache(key)
    IN IF Truthy(cached_url)
       THEN [ret |-> cached_url, key |-> key, cache |-> cache, link_cache |-> link_cache]
       ELSE LET url == KanNormalize(page_url, prefer_http)
                got == KanGetCachedDefault(url, resp)
            IN IF got.ret.k = "raise"
               THEN [ret |-> got.ret, key |-> key, cache |-> cache, link_cache |-> link_cache]
               ELSE LET found == KanExtract(url, got.text)
                        resolved == IF found # <<>> /\ prefer_http /\ StartsWith(found, HTTPS)
                                    THEN Replace(found, HTTPS, HTTP)
                                    ELSE found
                    IN IF resolved # <<>>
                       THEN [ret |-> Str(resolved), key |-> key, cache |-> got.cache,
                             link_cache |-> SetLinkCache(key, Str(resolved))]
                       ELSE [ret |-> None, key |-> key, cache |-> got.cache,
                             link_cache |-> link_cache]

KanPages ==
    {HTTPS \o <<"www.kan.org.il/content/kan/kan-11/p-1/">>,
     HTTPS \o <<"www.kan.org.il/", "ByPlayer", "/player.aspx">>,
     HTTPS \o <<"kan11.", "media.kan.org.il", "/hls/live/", "HLS/HLS", "/master.m3u8">>,
     HTTPS \o <<"cdnapisec.", "kaltura", ".com/p/1/embed">>,
     HTTPS \o <<"www.kan.org.il/r?u=">> \o HTTPS \o <<"www.kan.org.il/item/2">>}

KanTexts ==
    {EmptyText,
     [EmptyText EXCEPT !.dailymotion = Match(<<"XYZ123">>)],
     [EmptyText EXCEPT !.dailymotion = Match(<<"XYZ123">>),
                       !.hls = Match(HTTPS \o <<"kan11.media.kan.org.il/hls/live/master.m3u8">>)],
     [EmptyText EXCEPT !.hls = Match(HTTPS \o <<"kan11.media.kan.org.il/hls/live/master.m3u8">>)],
     [EmptyText EXCEPT !.UrlRedirector = Match(<<"https", "://", "r.kan.org.il/x?a=1", "\\u0026", "b=2">>)],
     [EmptyText EXCEPT !.kaltura = Match(<<"{">>)],
     [EmptyText EXCEPT !.kaltura = Match(<<"json">>),
                       !.kalturaJson = Str(HTTPS \o <<"cdnapisec.kaltura.com/a.m3u8">>)]}

KanResponses ==
    {KanResponse("200", t) : t \in KanTexts}
    \cup {KanResponse("404", EmptyText), KanResponse("error", EmptyText)}

\* one run resolves one page, whose fetch the upstream answers in one way
KanWorlds == {[kind |-> "kan", page |-> p, resp |-> r] : p \in KanPages, r \in KanResponses}

KanResolve(prefer_http) ==
    LET r == KanResolveUrl(world.page, prefer_http, world.resp)
    IN /\ cache' = r.cache
       /\ link_cache' = r.link_cache
       /\ last' = [op |-> "resolve_url", url |-> world.page, prefer_http |-> prefer_http,
                   ret |-> r.ret, key |-> r.key, miss |-> ~Truthy(GetFromLinkCache(r.key))]
       /\ UNCHANGED <<now, hist, first, world, calls>>

InitKan ==
    /\ now = 0
    /\ cache = EmptyDict
    /\ link_cache = EmptyDict
    /\ last = Idle
    /\ hist = HistClear
    /\ first = EmptyDict
    /\ calls = NoCalls
    /\ world \in KanWorlds

NextKan ==
    \/ Tick
    \/ ClearCache
    \/ \E prefer_http \in BOOLEAN : KanResolve(prefer_http)

SpecKan == InitKan /\ [][NextKan]_vars

\* C6: a resolve made on a link-cache miss returns a resolved URL or None,
\* whatever the page and whatever the outcome of its fetch; it never raises.
C6_KanNeverRaises ==
    last.op = "resolve_url" /\ world.kind = "kan" /\ last.miss =>
        last.ret.k \in {"str", "None"}

\* C7: the link-cache entry is looked up and stored under a key that combines
\* the page URL with the protocol preference, so that an HTTP-preference resolve
\* never returns an https:// URL.
C7_KanKeyCombinesPreference ==
    last.op = "resolve_url" /\ world.kind = "kan" =>
        /\ last.key = CacheKey(last.url, last.prefer_http)
        /\ (last.prefer_http /\ last.ret.k = "str" => ~StartsWith(last.ret.v, HTTPS))

\* C8: for a fetched document that matches both pattern (a), the video-embed
\* identifier, and pattern (c), the inline hls field, the result is the URL that
\* pattern (a) builds, adjusted to the preference.
C8_KanPatternAFirst ==
    last.op = "resolve_url" /\ world.kind = "kan"
    /\ world.resp.status = "200" /\ world.resp.text.dailymotion.m /\ world.resp.text.hls.m =>
        last.ret = Str((IF last.prefer_http THEN HTTP ELSE HTTPS)
                       \o <<"www.dailymotion.com/embed/video/">> \o world.resp.text.dailymotion.g)

\* C24: a fetched page whose text has a dailymotion marker followed by
\* video:"<id>" resolves to https://www.dailymotion.com/embed/video/<id> under
\* HTTPS preference and to the same URL with the scheme http:// under HTTP
\* preference.
C24_DailymotionEmbed ==
    last.op = "resolve_url" /\ world.kind = "kan"
    /\ world.resp.status = "200" /\ world.resp.text.dailymotion.m =>
        last.ret = Str(IF last.prefer_http
                       THEN Replace(DAILYMOTION_EMBED \o world.resp.text.dailymotion.g, HTTPS, HTTP)
                       ELSE DAILYMOTION_EMBED \o world.resp.text.dailymotion.g)

----------------------------------------------------------------------------
(* keshet_module.py: the ticket-negotiation resolver *)

MAKO_BASE_URL == HTTPS \o <<"www.mako.co.il">>
MAKO_ENDINGS == <<"platform=responsive">>

\* an upstream request, as it is logged: the parameter document ("params"), the
\* media listing ("playlist.jsp"), and the entitlement service's et=gt (ticket),
\* et=ln (login) and et=gds (validate session); rv and lp are the ticket
\* request's CDN and stream URL
Request(what) == [req |-> what, rv |-> "", lp |-> <<>>]
TicketRequest(stream_url, cdn) == [req |-> "gt", rv |-> cdn, lp |-> stream_url]

\* unquote_plus: "+" is a space, %XX is the character
UnquotePlus(s) ==
    [i \in 1..Len(s) |->
        CASE s[i] = "+" -> " "
          [] s[i] = "%3D" -> "="
          [] s[i] = "%7E" -> "~"
          [] OTHER -> s[i]]

\* The entitlement service's answer to a ticket request:
\*   "fail"         _get returns None (network error, non-2xx)
\*   "badjson"      the body is no JSON
\*   "1"            caseId '1' and tickets[0].ticket present
\*   "1_notickets"  caseId '1' and no tickets
\*   "4"            caseId '4'
\*   "other"        any other caseId, or none
TicketAnswers == {"fail", "badjson", "1", "1_notickets", "4", "other"}
NoAnswer == "-"

\* result['tickets'][0]['ticket'] of a caseId '1' answer
AnswerTicket(answer) ==
    CASE answer = "1" -> Str(UnquotePlus(<<"hdnea", "%3D", "st", "%7E", "exp", "+", "acl">>))
      [] OTHER -> Raise("KeyError")

\* _mako_login(device_id): submit the credentials, then validate the session;
\* the answers are not looked at
MakoLogin == <<Request("ln"), Request("gds")>>

GetTicketRetryTwice(stream_url, cdn, username, r1, r2) ==
    LET gt == TicketRequest(stream_url, cdn)
        caught(x) == IF x.k = "raise" THEN None ELSE x
    IN IF r1 \in {"fail", "badjson"} THEN [ret |-> None, log |-> <<gt>>]
       ELSE IF r1 \in {"1", "1_notickets"}
            THEN [ret |-> caught(AnswerTicket(r1)), log |-> <<gt>>]
       ELSE IF r1 = "4" /\ username # ""
            THEN [ret |-> IF r2 \in {"1", "1_notickets"} THEN caught(AnswerTicket(r2)) ELSE None,
                  log |-> <<gt>> \o MakoLogin \o <<gt>>
                          \o (IF r2 = "4" THEN MakoLogin \o <<gt>> ELSE <<>>)]
       ELSE [ret |-> None, log |-> <<gt>>]

\* _get_ticket(stream_url, cdn): r1 answers the ticket request, r2 its retry.
\* An exception inside the try block gives None.
GetTicket(stream_url, cdn, username, r1, r2) ==
    LET gt == TicketRequest(stream_url, cdn)
        caught(x) == IF x.k = "raise" THEN None ELSE x
    IN IF r1 = "fail" THEN [ret |-> None, log |-> <<gt>>]
       ELSE IF r1 = "badjson" THEN [ret |-> None, log |-> <<gt>>]
       ELSE IF r1 \in {"1", "1_notickets"}
            THEN [ret |-> caught(AnswerTicket(r1)), log |-> <<gt>>]
       ELSE IF r1 = "4" /\ username # ""
            THEN [ret |-> IF r2 \in {"1", "1_notickets"}
                          THEN caught(AnswerTicket(r2))
                          ELSE None,
                  log |-> <<gt>> \o MakoLogin \o <<gt>>]
       ELSE [ret |-> None, log |-> <<gt>>]

\* the first item of the listing at which the loop of _get_link stops: it has
\* no 'cdn' (KeyError) or its cdn is the one looked for; 0 when there is none
GetLinkStop(media, cdn) ==
    LET stops == {i \in 1..Len(media) : "cdn" \notin DOMAIN media[i] \/ media[i]["cdn"] = cdn}
    IN IF stops = {} THEN 0 ELSE Min(stops)

FinalUrlUpgrades(url, ticket, prefer_http) ==
    LET u == IF StartsWith(url, <<"//">>)
             THEN <<IF prefer_http THEN "http" ELSE "https", ":">> \o url
             ELSE IF StartsWith(url, HTTPS) /\ prefer_http
                  THEN Replace(url, HTTPS, HTTP)
                  ELSE IF StartsWith(url, HTTP) /\ ~prefer_http
                       THEN Replace(url, HTTP, HTTPS)
                       ELSE url
    IN IF Contains(u, <<"?">>) THEN u \o <<"&">> \o ticket ELSE u \o <<"?">> \o ticket

\* lines 181-193: the protocol preference applied, the ticket appended
FinalUrl(url, ticket, prefer_http) ==
    LET u == IF StartsWith(url, <<"//">>)
             THEN <<IF prefer_http THEN "http" ELSE "https", ":">> \o url
             ELSE IF StartsWith(url, HTTPS) /\ prefer_http
                  THEN Replace(url, HTTPS, HTTP)
                  ELSE url
    IN IF Contains(u, <<"?">>) THEN u \o <<"&">> \o ticket ELSE u \o <<"?">> \o ticket

GetLinkUrlNoStrip(media, cdn) ==
    LET i == GetLinkStop(media, cdn)
    IN IF i = 0 THEN Str(<<>>)
       ELSE IF "cdn" \notin DOMAIN media[i] \/ "url" \notin DOMAIN media[i]
            THEN Raise("KeyError")
       ELSE Str(media[i]["url"])

\* lines 162-174 of _get_link: the URL of the candidate for cdn, "" when there
\* is none, KeyError when an item has no 'cdn' or the candidate no 'url'
GetLinkUrl(media, cdn) ==
    LET i == GetLinkStop(media, cdn)
    IN IF i = 0 THEN Str(<<>>)
       ELSE IF "cdn" \notin DOMAIN media[i] \/ "url" \notin DOMAIN media[i]
            THEN Raise("KeyError")
       ELSE LET pos == Find(media[i]["url"], <<"?">>)
            IN IF cdn = "AKAMAI" /\ pos > 0
               THEN Str(SubSeq(media[i]["url"], 1, pos))
               ELSE Str(media[i]["url"])

\* _get_link(media, cdn, quality, prefer_http): the link, None or an exception,
\* with the requests made and the ticket obtained
GetLink(media, cdn, prefer_http, username, r1, r2) ==
    LET url == GetLinkUrl(media, cdn)
        nothing == [cdn |-> cdn, ret |-> None, ticket |-> None, log |-> <<>>, r1 |-> r1, r2 |-> r2]
    IN IF url.k = "raise" THEN [nothing EXCEPT !.ret = url]
       ELSE IF url.v = <<>> THEN nothing
       ELSE LET t == GetTicket(url.v, cdn, username, r1, r2)
            IN IF ~Truthy(t.ret)
               THEN [nothing EXCEPT !.ticket = t.ret, !.log = t.log]
               ELSE [nothing EXCEPT !.ret = Str(FinalUrl(url.v, t.ret.v, prefer_http)),
                                    !.ticket = t.ret, !.log = t.log]

\* The upstream's answer to the media-listing request:
\*   "fail" (_get returns None), "badjson", "nomedia" (no 'media' in it), "media"
AjaxAnswers == {"fail", "badjson", "nomedia", "media"}

PlayNoFallback(media, prefer_http, username, ajax, ak1, ak2, aws1, aws2) ==
    LET log0 == <<Request("playlist.jsp")>>
        ak == GetLink(media, "AKAMAI", prefer_http, username, ak1, ak2)
    IN IF ajax # "media" THEN [ret |-> None, log |-> log0, attempts |-> <<>>]
       ELSE [ret |-> IF ak.ret.k = "raise" THEN None ELSE ak.ret,
             log |-> log0 \o ak.log, attempts |-> <<ak>>]

PlayAwsFirst(media, prefer_http, username, ajax, ak1, ak2, aws1, aws2) ==
    LET log0 == <<Request("playlist.jsp")>>
        ak == GetLink(media, "AKAMAI", prefer_http, username, ak1, ak2)
        aws == GetLink(media, "AWS", prefer_http, username, aws1, aws2)
    IN IF ajax # "media" THEN [ret |-> None, log |-> log0, attempts |-> <<>>]
       ELSE IF aws.ret.k = "raise"
            THEN [ret |-> None, log |-> log0 \o aws.log, attempts |-> <<aws>>]
       ELSE IF aws.ret # None
            THEN [ret |-> aws.ret, log |-> log0 \o aws.log, attempts |-> <<aws>>]
       ELSE [ret |-> IF ak.ret.k = "raise" THEN None ELSE ak.ret,
             log |-> log0 \o aws.log \o ak.log, attempts |-> <<aws, ak>>]

\* _play(url_params, quality, switch_cdn, prefer_http), lines 254-289: the media
\* listing is fetched, then AKAMAI is tried and, if it gives None, AWS.  An
\* exception inside the try block gives None.
Play(media, prefer_http, username, ajax, ak1, ak2, aws1, aws2) ==
    LET log0 == <<Request("playlist.jsp")>>
        ak == GetLink(media, "AKAMAI", prefer_http, username, ak1, ak2)
        aws == GetLink(media, "AWS", prefer_http, username, aws1, aws2)
    IN IF ajax # "media" THEN [ret |-> None, log |-> log0, attempts |-> <<>>]
       ELSE IF ak.ret.k = "raise"
            THEN [ret |-> None, log |-> log0 \o ak.log, attempts |-> <<ak>>]
       ELSE IF ak.ret # None
            THEN [ret |-> ak.ret, log |-> log0 \o ak.log, attempts |-> <<ak>>]
       ELSE [ret |-> IF aws.ret.k = "raise" THEN None ELSE aws.ret,
             log |-> log0 \o ak.log \o aws.log, attempts |-> <<ak, aws>>]

\* The upstream's answer to the parameter-document request:
\*   "fail"     _get_json returns None (request failed, or no JSON)
\*   "empty"    an empty document
\*   "scalar"   {"root": <a number>}: len(params) raises TypeError, outside any try
\*   "novod"    a document without vod.channelId or vod.itemVcmId
\*   "noids"    vod.channelId or vod.itemVcmId is empty
\*   "vod"      a document with both identifiers
ParamsAnswers == {"fail", "empty", "scalar", "novod", "noids", "vod"}

PlayItemStoreAlways(url, prefer_http, username, media, params, ajax, ak1, ak2, aws1, aws2) ==
    LET cache_key == CacheKey(url, prefer_http)
        cached_url == GetFromLinkCache(cache_key)
        log0 == <<Request("params")>>
        done(ret, log, attempts) ==
            [ret |-> ret, hit |-> FALSE, log |-> log, attempts |-> attempts,
             link_cache |-> SetLinkCache(cache_key, ret)]
    IN IF Truthy(cached_url)
       THEN [ret |-> cached_url, hit |-> TRUE, log |-> <<>>, attempts |-> <<>>,
             link_cache |-> link_cache]
       ELSE IF params \in {"fail", "empty"} THEN done(None, log0, <<>>)
       ELSE IF params = "scalar" THEN done(Raise("TypeError"), log0, <<>>)
       ELSE IF params \in {"novod", "noids"} THEN done(None, log0, <<>>)
       ELSE LET p == Play(media, prefer_http, username, ajax, ak1, ak2, aws1, aws2)
            IN done(p.ret, log0 \o p.log, p.attempts)

\* KeshetProvider.resolve_url(url, prefer_http=...) = _play_item(url, ...)
PlayItem(url, prefer_http, username, media, params, ajax, ak1, ak2, aws1, aws2) ==
    LET cache_key == CacheKey(url, prefer_http)
        cached_url == GetFromLinkCache(cache_key)
        log0 == <<Request("params")>>
        done(ret, log, attempts) ==
            [ret |-> ret, hit |-> FALSE, log |-> log, attempts |-> attempts,
             link_cache |-> IF Truthy(ret) THEN SetLinkCache(cache_key, ret) ELSE link_cache]
    IN IF Truthy(cached_url)
       THEN [ret |-> cached_url, hit |-> TRUE, log |-> <<>>, attempts |-> <<>>,
             link_cache |-> link_cache]
       ELSE IF params \in {"fail", "empty"} THEN done(None, log0, <<>>)
       ELSE IF params = "scalar" THEN done(Raise("TypeError"), log0, <<>>)
       ELSE IF params \in {"novod", "noids"} THEN done(None, log0, <<>>)
       ELSE LET p == Play(media, prefer_http, username, ajax, ak1, ak2, aws1, aws2)
            IN done(p.ret, log0 \o p.log, p.attempts)

\* get_channels()[0].url
KESHET_CHANNEL_URL == MAKO_BASE_URL \o <<"/mako-vod-live-tv/VOD-6540b8dcb64fd31006.htm">>

Item(cdn, url) == [cdn |-> cdn, url |-> url]
AkamaiUrl == <<"//", "mako-streaming.akamaized.net/n12/hls/live/main.m3u8", "?", "b-in-range=0-1800">>
AwsUrl == HTTPS \o <<"mako-streaming.aws.cdn/n12/hls/live/main.m3u8">>

\* the media listings the upstream may publish
KeshetMediaLists ==
    {<<>>,
     <<Item("AKAMAI", AkamaiUrl)>>,
     <<Item("AWS", AwsUrl)>>,
     <<Item("AKAMAI", AkamaiUrl), Item("AWS", AwsUrl)>>,
     <<Item("CASTTIME", AwsUrl), Item("AWS", AwsUrl)>>,
     <<Item("AWS", <<>>)>>,
     <<[url |-> AwsUrl], Item("AWS", AwsUrl)>>,
     <<[cdn |-> "AWS"]>>}

\* one run: the credentials are configured or not, the upstream publishes one listing
KeshetWorlds ==
    {[kind |-> "keshet", username |-> u, media |-> m] : u \in {"", "user"}, m \in KeshetMediaLists}

\* the answers a ticket request and its retry may get; the retry's answer only
\* where a retry is made
TicketAnswerPairs(username) ==
    {<<r1, r2>> \in TicketAnswers \X (TicketAnswers \cup {NoAnswer}) :
        (r2 # NoAnswer) <=> (r1 = "4" /\ username # "")}

\* resolve_url is called once the previous call has returned
KeshetResolve(prefer_http, params, ajax, ak, aws) ==
    LET r == PlayItem(KESHET_CHANNEL_URL, prefer_http, world.username, world.media,
                      params, ajax, ak[1], ak[2], aws[1], aws[2])
    IN /\ last.op # "resolve_url"
       /\ link_cache' = r.link_cache
       /\ last' = [op |-> "resolve_url", url |-> KESHET_CHANNEL_URL, prefer_http |-> prefer_http,
                   ret |-> r.ret, hit |-> r.hit, log |-> r.log, attempts |-> r.attempts,
                   params |-> params, ajax |-> ajax]
       /\ UNCHANGED <<now, cache, hist, first, world, calls>>

\* the caller takes the result
KeshetReturn ==
    /\ last.op = "resolve_url"
    /\ last' = Idle
    /\ UNCHANGED <<now, cache, link_cache, hist, first, world, calls>>

InitKeshet ==
    /\ now = 0
    /\ cache = EmptyDict
    /\ link_cache = EmptyDict
    /\ last = Idle
    /\ hist = HistClear
    /\ first = EmptyDict
    /\ calls = NoCalls
    /\ world \in KeshetWorlds

\* the answers drawn for one resolve: only those of the requests it makes
Answers(S, asked) == IF asked THEN S ELSE {NoAnswer}
AnswerPairs(username, asked) ==
    IF asked THEN TicketAnswerPairs(username) ELSE {<<NoAnswer, NoAnswer>>}
Asks(media, cdn) == Truthy(GetLinkUrl(media, cdn))

NextKeshet ==
    \/ Tick
    \/ ClearCache
    \/ KeshetReturn
    \/ /\ last.op # "resolve_url"
       /\ \E prefer_http \in BOOLEAN :
         \E params \in Answers(ParamsAnswers,
                               ~Truthy(GetFromLinkCache(CacheKey(KESHET_CHANNEL_URL, prefer_http)))) :
           \E ajax \in Answers(AjaxAnswers, params = "vod") :
             \E ak \in AnswerPairs(world.username,
                                   ajax = "media" /\ Asks(world.media, "AKAMAI")) :
               \E aws \in AnswerPairs(world.username,
                          /\ ajax = "media"
                          /\ GetLink(world.media, "AKAMAI", prefer_http, world.username,
                                     ak[1], ak[2]).ret = None
                          /\ Asks(world.media, "AWS")) :
                 KeshetResolve(prefer_http, params, ajax, ak, aws)

SpecKeshet == InitKeshet /\ [][NextKeshet]_vars

\* every item of the listing carries a CDN tag
AllTagged(media) == \A i \in 1..Len(media) : "cdn" \in DOMAIN media[i]
HasCandidate(media, cdn) ==
    \E i \in 1..Len(media) : "cdn" \in DOMAIN media[i] /\ media[i]["cdn"] = cdn

\* the entitlement service gives a ticket: case code "1" with a ticket, at once
\* or on the retry
YieldsTicket(attempt) ==
    attempt.r1 = "1" \/ (attempt.r1 = "4" /\ attempt.r2 = "1")

\* the kinds of the requests of a log, in order
Reqs(log) == [j \in 1..Len(log) |-> log[j].req]

C10_OneLoginOneRetry ==
    last.op = "resolve_url" /\ world.kind = "keshet" =>
        \A i \in 1..Len(last.attempts) :
            LET a == last.attempts[i]
            IN a.r1 = "4" =>
                 IF world.username # ""
                 THEN /\ Reqs(a.log) = <<"gt", "ln", "gds", "gt">>
                      /\ a.log[4] = a.log[1]
                      /\ Truthy(a.ticket) <=> a.r2 = "1"
                 ELSE /\ Reqs(a.log) = <<"gt">>
                      /\ a.ticket = None

\* credentials configured, case code "4" on the ticket request and again on its retry
C10_Witness ==
    /\ last.op = "resolve_url" /\ world.kind = "keshet" /\ world.username # ""
    /\ \E i \in 1..Len(last.attempts) :
          /\ last.attempts[i].r1 = "4" /\ last.attempts[i].r2 = "4"
          /\ Len(last.attempts[i].log) = 4
          /\ last.attempts[i].ticket = None

\* C11: when the listing has an AKAMAI candidate, the ticket request for AKAMAI
\* is the first one made; if it yields no ticket (a case code other than "1", a
\* retry after login that fails, a failed request or a body that is no JSON) the
\* AWS candidate is attempted next; AWS is attempted only then, and every AWS
\* request comes after the AKAMAI ones; the resolve fails exactly when neither
\* CDN yields a ticket.
C11_CdnOrderAndFallback ==
    /\ last.op = "resolve_url" /\ world.kind = "keshet" /\ last.ajax = "media"
    /\ Asks(world.media, "AKAMAI")
    => LET a == last.attempts
       IN /\ Len(a) >= 1
          /\ a[1].cdn = "AKAMAI"
          /\ a[1].log # <<>>
          /\ \A j \in 1..Len(a[1].log) : a[1].log[j].req = "gt" => a[1].log[j].rv = "AKAMAI"
          /\ IF YieldsTicket(a[1])
             THEN Len(a) = 1 /\ Truthy(last.ret)
             ELSE Len(a) = 2 /\ a[2].cdn = "AWS"
          /\ last.log = <<Request("params"), Request("playlist.jsp")>> \o a[1].log
                         \o (IF Len(a) = 2 THEN a[2].log ELSE <<>>)
          /\ \A j \in 1..Len(last.log) :
                last.log[j].rv = "AWS" => Len(a) = 2 /\ j > 2 + Len(a[1].log)
          /\ ~Truthy(last.ret) <=>
                \A i \in 1..Len(a) : ~(a[i].log # <<>> /\ YieldsTicket(a[i]))

\* AKAMAI answered the ticket request and its retry with case code "4", and the
\* resolve succeeded through AWS
C11_Witness ==
    /\ last.op = "resolve_url" /\ world.kind = "keshet" /\ last.ajax = "media"
    /\ Len(last.attempts) = 2
    /\ last.attempts[1].cdn = "AKAMAI"
    /\ last.attempts[1].r1 = "4" /\ last.attempts[1].r2 = "4"
    /\ last.attempts[2].cdn = "AWS" /\ last.attempts[2].r1 = "1"
    /\ Truthy(last.ret)
    /\ last.ret.v[3] = "mako-streaming.aws.cdn/n12/hls/live/main.m3u8"

\* C12: a resolve of (url, preference) made while the link cache holds an entry
\* under the (url, preference) key that is younger than LINK_CACHE_TIME returns
\* that entry's URL without any upstream request and leaves the cache as it is;
\* otherwise a resolve that succeeds stores the URL it returns under that key
\* with the current time, and a resolve that fails stores nothing and has
\* started again from the parameter document.
C12_StoreOnSuccessOnly ==
    [][last'.op = "resolve_url" /\ world.kind = "keshet" =>
          LET key == last'.url \o <<"_", IF last'.prefer_http THEN "http" ELSE "https">>
          IN IF key \in DOMAIN link_cache /\ now - link_cache[key].t < LINK_CACHE_TIME
             THEN /\ last'.ret = link_cache[key].url
                  /\ last'.log = <<>>
                  /\ link_cache' = link_cache
             ELSE /\ last'.log # <<>> /\ last'.log[1] = Request("params")
                  /\ IF Truthy(last'.ret)
                     THEN link_cache' = [x \in DOMAIN link_cache \cup {key} |->
                                           IF x = key THEN [url |-> last'.ret, t |-> now]
                                           ELSE link_cache[x]]
                     ELSE link_cache' = link_cache]_vars

\* a resolve served from the link cache ClockStep seconds after the resolve that
\* stored the entry, the only entry of the cache
C12_Witness ==
    /\ last.op = "resolve_url" /\ world.kind = "keshet"
    /\ last.hit /\ last.log = <<>>
    /\ DOMAIN link_cache = {CacheKey(last.url, last.prefer_http)}
    /\ link_cache[CacheKey(last.url, last.prefer_http)].url = last.ret
    /\ now - link_cache[CacheKey(last.url, last.prefer_http)].t = ClockStep

\* C13: resolve_url never raises: whatever the upstream answers to each request
\* (a failed request, a body that is no JSON, a JSON body of any shape), the call
\* returns a URL or None.
C13_KeshetNeverRaises ==
    last.op = "resolve_url" /\ world.kind = "keshet" => last.ret.k \in {"str", "None"}

\* the requests of a resolve in the order the steps make them: the parameter
\* document, then the media listing, then ticket and login requests
StepsOrdered(log) ==
    /\ log # <<>> => log[1] = Request("params")
    /\ Len(log) >= 2 => log[2] = Request("playlist.jsp")
    /\ \A i \in 3..Len(log) : log[i].req \in {"gt", "ln", "gds"}

\* C26: the steps of a resolve are made in order and a failed step ends the
\* call: when the parameter document cannot be fetched, is empty or lacks the
\* content-item or the channel-group identifier, the call returns None and has
\* made no media-listing request and no ticket request; when the media listing
\* cannot be fetched or has no media list, the call returns None and has made
\* no ticket request and no login request.
C26_FailedStepIsTerminal ==
    last.op = "resolve_url" /\ world.kind = "keshet" /\ ~last.hit =>
        /\ StepsOrdered(last.log)
        /\ last.params # "vod" =>
              /\ last.ret = None
              /\ last.log = <<Request("params")>>
        /\ last.params = "vod" /\ last.ajax # "media" =>
              /\ last.ret = None
              /\ last.log = <<Request("params"), Request("playlist.jsp")>>

----------------------------------------------------------------------------
(* keshet_module.py: _get_link on its own, over the candidate URLs a listing may carry *)

\* candidate URLs: scheme-relative, https:// and http://, each with and without
\* a query; an https:// URL whose query carries another https:// URL; and a
\* URL that begins with "?"
GetLinkUrls ==
    {AkamaiUrl,
     <<"//", "mako-streaming.akamaized.net/n12/hls/live/main.m3u8">>,
     AwsUrl,
     HTTPS \o <<"mako-streaming.aws.cdn/n12/hls/live/main.m3u8", "?", "a=1">>,
     HTTP \o <<"mako-streaming.aws.cdn/n12/hls/live/main.m3u8">>,
     HTTP \o <<"mako-streaming.aws.cdn/n12/hls/live/main.m3u8", "?", "a=1">>,
     HTTPS \o <<"mako-streaming.aws.cdn/r", "?", "u=">> \o HTTPS \o <<"origin/main.m3u8">>,
     <<"?", "a=1">>}

\* one run: a listing of one candidate, for one CDN, with or without credentials
GetLinkWorlds ==
    {[kind |-> "get_link", username |-> u, cdn |-> c, media |-> <<Item(c, url)>>] :
        u \in {"", "user"}, c \in {"AKAMAI", "AWS"}, url \in GetLinkUrls}

\* _get_link(media, cdn, quality, prefer_http)
GetLinkCall(prefer_http, r) ==
    LET g == GetLink(world.media, world.cdn, prefer_http, world.username, r[1], r[2])
    IN /\ last' = [op |-> "_get_link", cdn |-> world.cdn, prefer_http |-> prefer_http,
                   ret |-> g.ret, ticket |-> g.ticket, log |-> g.log]
       /\ UNCHANGED <<now, cache, link_cache, hist, first, world, calls>>

InitGetLink ==
    /\ now = 0
    /\ cache = EmptyDict
    /\ link_cache = EmptyDict
    /\ last = Idle
    /\ hist = HistClear
    /\ first = EmptyDict
    /\ calls = NoCalls
    /\ world \in GetLinkWorlds

NextGetLink ==
    \E prefer_http \in BOOLEAN, r \in TicketAnswerPairs(world.username) :
        GetLinkCall(prefer_http, r)

SpecGetLink == InitGetLink /\ [][NextGetLink]_vars

\* C14: when a ticket is obtained, the link is the candidate URL (as it was
\* given to the ticket request) rewritten for the preference, a separator, and
\* the decoded ticket: a scheme-relative candidate gets http: under HTTP
\* preference and https: under HTTPS preference; an https:// candidate gets the
\* scheme http only under HTTP preference; an http:// candidate, and any other,
\* is kept; the separator is & when the rewritten URL contains a ?, and ? otherwise.
C14_FinalUrlPerPreference ==
    last.op = "_get_link" /\ world.kind = "get_link" /\ Truthy(last.ticket) =>
        LET cand == last.log[1].lp
            ticket == <<"hdnea", "=", "st", "~", "exp", " ", "acl">>
            n == Len(last.ret.v) - Len(ticket)
            body == SubSeq(last.ret.v, 1, n - 1)
        IN /\ last.ret.k = "str"
           /\ last.ticket.v = ticket
           /\ n >= 1
           /\ SubSeq(last.ret.v, n + 1, Len(last.ret.v)) = ticket
           /\ last.ret.v[n] = IF \E i \in 1..Len(body) : body[i] = "?" THEN "&" ELSE "?"
           /\ IF cand[1] = "//"
              THEN body = <<IF last.prefer_http THEN "http" ELSE "https", ":">> \o cand
              ELSE IF cand[1] = "https" /\ cand[2] = "://" /\ last.prefer_http
              THEN /\ Len(body) = Len(cand)
                   /\ body[1] = "http"
                   /\ \A i \in 2..Len(cand) :
                         body[i] = cand[i] \/ (cand[i] = "https" /\ body[i] = "http")
              ELSE body = cand

\* an https:// candidate with a query, resolved under HTTP preference: http://
\* and the ticket joined with &
C14_Witness ==
    /\ last.op = "_get_link" /\ world.kind = "get_link" /\ last.prefer_http
    /\ last.ret = Str(<<"http", "://", "mako-streaming.aws.cdn/n12/hls/live/main.m3u8", "?", "a=1",
                        "&", "hdnea", "=", "st", "~", "exp", " ", "acl">>)

\* the part of a URL before its first "?", and the part from it on
UrlBase(url) == IF Find(url, <<"?">>) < 0 THEN url ELSE SubSeq(url, 1, Find(url, <<"?">>))
UrlQuery(url) == SubSeq(url, Len(UrlBase(url)) + 1, Len(url))

----------------------------------------------------------------------------
(* server.py: manifest rewriting *)

\* A manifest is a sequence of tokens: "\n", "\r" and " " are the whitespace
\* characters, "#" is the comment character, ".ts" the segment extension, and
\* any other token stands for one or more other characters.

\* the bound of the manifests: their number of lines
MaxLines == 3

\* \s
TS_WS == {"\n", "\r", " "}

\* request.host_url, and base_url = request.host_url.rstrip('/')
HOST_URL == <<"http://192.168.0.63:5000", "/">>
RECURSIVE RStripSlash(_)
RStripSlash(u) ==
    IF u # <<>> /\ u[Len(u)] = "/" THEN RStripSlash(SubSeq(u, 1, Len(u) - 1)) ELSE u
BaseUrl == RStripSlash(HOST_URL)

\* str.strip()
RECURSIVE StrStrip(_)
StrStrip(u) ==
    IF u = <<>> THEN u
    ELSE IF u[1] \in TS_WS THEN StrStrip(Tail(u))
    ELSE IF u[Len(u)] \in TS_WS THEN StrStrip(SubSeq(u, 1, Len(u) - 1))
    ELSE u

\* the position of the first "\n" at or after i, Len(text) + 1 when there is none
LineEnd(text, i) ==
    LET nl == {j \in i..Len(text) : text[j] = "\n"}
    IN IF nl = {} THEN Len(text) + 1 ELSE Min(nl)

\* TS_LINE_REGEX = ^(?!#)(.+\.ts)\s*$ with re.MULTILINE, tried at position i:
\* whether it matches, where group 1 ends (k) and where the match ends (stop,
\* the first position after it).  ^ is the start of the text or the position
\* after a "\n"; .+ does not cross a "\n"; \s* does, and gives back down to the
\* last position that is the end of the text or stands before a "\n".
TsMatch(text, i) ==
    LET e == LineEnd(text, i)
        K == {k \in (i + 1)..(e - 1) :
                 text[k] = ".ts" /\ \A j \in (k + 1)..(e - 1) : text[j] \in TS_WS}
    IN IF (i = 1 \/ text[i - 1] = "\n") /\ text[i] # "#" /\ K # {}
       THEN LET k == Max(K)
                rest == {j \in (k + 1)..Len(text) : text[j] \notin TS_WS}
            IN [m |-> TRUE, k |-> k,
                stop |-> IF rest = {} THEN Len(text) + 1
                         ELSE Max({j \in (k + 1)..(Min(rest) - 1) : text[j] = "\n"})]
       ELSE [m |-> FALSE, k |-> 0, stop |-> i]

\* _sub(match)
TsSubstitute(group1) == BaseUrl \o <<"/segments/">> \o StrStrip(group1)

\* TS_LINE_REGEX.sub(_sub, variant_text), from position i on
RECURSIVE TsSub(_, _)
TsSub(text, i) ==
    IF i > Len(text) THEN <<>>
    ELSE LET match == TsMatch(text, i)
         IN IF match.m
            THEN TsSubstitute(SubSeq(text, i, match.k)) \o TsSub(text, match.stop)
            ELSE <<text[i]>> \o TsSub(text, i + 1)

\* rewrite_variant_for_ts(variant_text)
RewriteVariantForTs(variant_text) == TsSub(variant_text, 1)

\* the lines of the upstream's variant manifests: a directive, a segment, a
\* blank line, a line that is neither
ManifestLines == {<<"#", "EXTINF:4,">>, <<"seg", ".ts">>, <<>>, <<"index_2200", ".m3u8">>}
LineEndings == {<<"\n">>, <<"\r", "\n">>}

\* the manifests of at most n lines; the last line may lack its line ending
RECURSIVE ManifestsOf(_)
ManifestsOf(n) ==
    IF n = 0 THEN {<<>>}
    ELSE ManifestLines
         \cup {l \o t \o m : l \in ManifestLines, t \in LineEndings, m \in ManifestsOf(n - 1)}

RewriteWorlds == {[kind |-> "rewrite", variant_text |-> m] : m \in ManifestsOf(MaxLines)}

\* rewrite_variant_for_ts on the upstream's manifest
RewriteVariant ==
    /\ last' = [op |-> "rewrite_variant_for_ts", pass |-> 1,
                variant_text |-> world.variant_text,
                ret |-> RewriteVariantForTs(world.variant_text)]
    /\ UNCHANGED <<now, cache, link_cache, hist, first, world, calls>>

\* rewrite_variant_for_ts on its own output
RewriteAgain ==
    /\ last.op = "rewrite_variant_for_ts" /\ last.pass = 1
    /\ last' = [op |-> "rewrite_variant_for_ts", pass |-> 2,
                variant_text |-> last.ret,
                ret |-> RewriteVariantForTs(last.ret)]
    /\ UNCHANGED <<now, cache, link_cache, hist, first, world, calls>>

InitRewrite ==
    /\ now = 0
    /\ cache = EmptyDict
    /\ link_cache = EmptyDict
    /\ last = Idle
    /\ hist = HistClear
    /\ first = EmptyDict
    /\ calls = NoCalls
    /\ world \in RewriteWorlds

NextRewrite ==
    \/ RewriteVariant
    \/ RewriteAgain

SpecRewrite == InitRewrite /\ [][NextRewrite]_vars

\* the lines of a text, without their line endings ("\n" or "\r\n"); a line
\* ending at the end of the text opens no further line
RECURSIVE SplitLines(_)
SplitLines(text) ==
    IF text = <<>> THEN <<>>
    ELSE LET e == LineEnd(text, 1)
             line == SubSeq(text, 1, e - 1)
         IN <<IF line # <<>> /\ line[Len(line)] = "\r"
              THEN SubSeq(line, 1, Len(line) - 1) ELSE line>>
            \o SplitLines(SubSeq(text, e + 1, Len(text)))

\* a line that does not start with # and ends with the .ts extension
IsSegmentLine(line) == line # <<>> /\ line[1] # "#" /\ line[Len(line)] = ".ts"

\* C15: the rewrite of an upstream manifest has as many lines as the manifest;
\* each line that does not start with # and ends with .ts has become
\* <base>/segments/<that line>, and every other line is the same, in the same
\* place.
C15_RewriteKeepsLines ==
    last.op = "rewrite_variant_for_ts" /\ last.pass = 1 =>
        LET in == SplitLines(last.variant_text)
            out == SplitLines(last.ret)
        IN /\ Len(out) = Len(in)
           /\ \A i \in 1..Len(in) :
                 out[i] = IF IsSegmentLine(in[i])
                          THEN <<"http://192.168.0.63:5000", "/segments/">> \o in[i]
                          ELSE in[i]

\* C16: the rewrite applied to its own output changes nothing, and keeps the
\* number of lines.
C16_RewriteIdempotent ==
    last.op = "rewrite_variant_for_ts" /\ last.pass = 2 =>
        /\ last.ret = last.variant_text
        /\ Len(SplitLines(last.ret)) = Len(SplitLines(last.variant_text))

----------------------------------------------------------------------------
(* server.py and keshet_module.py: the segment endpoint *)

\* a requests.Response / httpx.Response: the status and the body
Resp(status, text) == [k |-> "resp", status |-> status, text |-> text]

\* get_master_url(): resolve_url(get_channels()[0].url, prefer_http=True)
GetMasterUrl(username, media, params, ajax, ak1, ak2, aws1, aws2) ==
    PlayItem(KESHET_CHANNEL_URL, TRUE, username, media, params, ajax, ak1, ak2, aws1, aws2)

MASTER_URL_KEY == <<"master_url">>
MASTER_TTL == 720

\* get_master_url_with_cache(ttl): master is what the get_master_url() of line
\* 69 returns, mresp what the upstream answers to the fetch of line 70; ret is
\* the response, None, or an exception, cache the content cache it leaves,
\* fetches the number of manifest fetches made.  requests.get(None) raises.
GetMasterUrlWithCache(ttl, master, mresp) ==
    LET cached_url == GetFromCache(MASTER_URL_KEY, ttl)
    IN IF cached_url # None
       THEN [ret |-> cached_url, cache |-> cache, fetches |-> 0]
       ELSE IF master.k = "raise"
       THEN [ret |-> master, cache |-> cache, fetches |-> 0]
       ELSE IF master.k = "None"
       THEN [ret |-> Raise("MissingSchema"), cache |-> cache, fetches |-> 0]
       ELSE IF mresp.status = "error"
       THEN [ret |-> Raise("ConnectionError"), cache |-> cache, fetches |-> 1]
       ELSE IF mresp.status # "200"
       THEN [ret |-> None, cache |-> cache, fetches |-> 1]
       ELSE [ret |-> mresp, cache |-> SetCache(MASTER_URL_KEY, mresp), fetches |-> 1]

\* server.py:274, get_master_url_with_cache(master_url=master_url): the method
\* has the parameters self and ttl only, so the call raises TypeError (an
\* unexpected keyword argument) before the body of the method is entered
GetMasterUrlWithCacheKeyword(master, mresp) ==
    [ret |-> Raise("TypeError"), cache |-> cache, fetches |-> 0]

ExtractFirstVariantFallback(master_text) ==
    LET hits == {i \in 1..Len(master_text) :
                    LET line == StrStrip(master_text[i])
                    IN /\ master_text[i] # <<>>
                       /\ master_text[i][1] # "#"
                       /\ line # <<>>
                       /\ line[Len(line)] = "index_2200.m3u8"}
        others == {i \in 1..Len(master_text) :
                      master_text[i] # <<>> /\ master_text[i][1] # "#"}
    IN IF hits # {} THEN Str(StrStrip(master_text[Min(hits)]))
       ELSE IF others # {} THEN Str(StrStrip(master_text[Min(others)]))
       ELSE Raise("ValueError")

\* extract_first_variant(master_text): group 1 of the first line that does not
\* start with # and ends with index_2200.m3u8, stripped; ValueError when there
\* is none.  master_text is the sequence of the manifest's lines.
ExtractFirstVariant(master_text) ==
    LET hits == {i \in 1..Len(master_text) :
                    LET line == StrStrip(master_text[i])
                    IN /\ master_text[i] # <<>>
                       /\ master_text[i][1] # "#"
                       /\ line # <<>>
                       /\ line[Len(line)] = "index_2200.m3u8"}
    IN IF hits = {} THEN Raise("ValueError") ELSE Str(StrStrip(master_text[Min(hits)]))

VARIANT_MARKER == <<"/", "index_2200.m3u8">>

\* urlsplit(master_url): the scheme, the host and the path.  A resolved master
\* URL is <scheme> ":" "//" <host and path> ... or <scheme> "://" <host and
\* path> ...; the host ends before the first "/" of that token.
UrlSplit(url) ==
    LET hp == IF url[2] = "://" THEN url[3] ELSE url[4]
    IN [scheme |-> url[1],
        netloc |-> CASE hp = "mako-streaming.akamaized.net/n12/hls/live/main.m3u8" ->
                          "mako-streaming.akamaized.net"
                     [] OTHER -> "mako-streaming.aws.cdn",
        path |-> <<"/n12/hls/live", "/", "main.m3u8">>]

\* path.rsplit('/', 1)[0] + '/'
BasePath(path) ==
    LET i == RFind(path, <<"/">>)
    IN (IF i < 0 THEN path ELSE SubSeq(path, 1, i)) \o <<"/">>

\* f"{scheme}://{netloc}{base_path}{ts_path}?{hdntl_prefix}"
RealTsUrl(master_url, ts_path, hdntl_prefix) ==
    LET split == UrlSplit(master_url)
    IN <<split.scheme, "://", split.netloc>> \o BasePath(split.path) \o ts_path
       \o <<"?">> \o hdntl_prefix

\* what the client gets
Response(status, content_type, body) ==
    [status |-> status, content_type |-> content_type, body |-> body]

\* abort(code): raises an HTTPException, which is an Exception
Abort(code) == [k |-> "raise", v |-> <<"HTTPException", code>>]

\* proxy_segment(ts_path), lines 267-337: r is what get_master_url() does (line
\* 272), mresp and seg are the upstream's answers to the fetch of the master
\* manifest and of the segment.  Every exception raised inside the try block,
\* the HTTPException of abort(status) included, ends in abort(502).
ProxySegment(ts_path, r, mresp, seg) ==
    LET got == GetMasterUrlWithCacheKeyword(r.ret, mresp)
        done(resp, c, n, prefix, url) ==
            [resp |-> resp, master |-> r.ret, link_cache |-> r.link_cache, cache |-> c,
             fetches |-> n, hdntl_prefix |-> prefix, real_ts_url |-> url]
        caught(c, n) == done(Response("502", "text/html", <<>>), c, n, None, <<>>)
    IN IF r.ret.k = "raise" THEN caught(cache, 0)
       ELSE IF got.ret.k # "resp" THEN caught(got.cache, got.fetches)
       ELSE LET variant_rel == ExtractFirstVariant(got.ret.text)
            IN IF variant_rel.k = "raise" THEN caught(got.cache, got.fetches)
               ELSE LET slash_idx == Find(variant_rel.v, VARIANT_MARKER)
                        hdntl_prefix == SubSeq(variant_rel.v, 1, slash_idx)
                    IN IF slash_idx < 0 \/ r.ret.k # "str"
                       THEN caught(got.cache, got.fetches)
                       ELSE LET real_ts_url == RealTsUrl(r.ret.v, ts_path, hdntl_prefix)
                                upstream == IF seg.status = "error"
                                            THEN Raise("ConnectError")
                                            ELSE IF seg.status # "200"
                                            THEN Abort(seg.status)
                                            ELSE seg
                            IN IF upstream.k = "raise"
                               THEN done(Response("502", "text/html", <<>>), got.cache,
                                         got.fetches, Str(hdntl_prefix), real_ts_url)
                               ELSE done(Response("200", "video/MP2T", seg.text), got.cache,
                                         got.fetches, Str(hdntl_prefix), real_ts_url)

\* the master manifests the upstream may serve: with the variant line, without
\* it, and with a variant line that lacks the "/" before index_2200.m3u8
HdntlPrefix == <<"hdntl=exp=1~acl=%2f*~hmac=ab">>
MasterTexts ==
    {<<<<"#", "EXTM3U">>, <<"#", "EXT-X-STREAM-INF">>, HdntlPrefix \o VARIANT_MARKER>>,
     <<<<"#", "EXTM3U">>, <<"#", "EXT-X-STREAM-INF">>, HdntlPrefix \o <<"/", "index_1100.m3u8">>>>,
     <<<<"#", "EXTM3U">>, <<"index_2200.m3u8">>>>}
MasterResponses ==
    {Resp("200", t) : t \in MasterTexts} \cup {Resp("404", <<>>), Resp("error", <<>>)}
SegmentResponses ==
    {Resp("200", <<"TS-BYTES">>), Resp("404", <<>>), Resp("403", <<>>), Resp("error", <<>>)}
TsPaths == {<<"20241022T205724/seg_1", ".ts">>, <<"seg_2", ".ts">>}

\* one run: the listing has both candidates, no credentials are configured, and
\* the upstream answers the manifest fetch and the segment fetch in one way
SegmentWorlds ==
    {[kind |-> "segment", username |-> "",
      media |-> <<Item("AKAMAI", AkamaiUrl), Item("AWS", AwsUrl)>>,
      mresp |-> m, seg |-> g] : m \in MasterResponses, g \in SegmentResponses}

\* GET /segments/<ts_path>; the history keeps, for a manifest stored in the
\* content cache, the master URL it was fetched from
SegmentRequest(ts_path, params, ajax, ak, aws) ==
    \E r \in {GetMasterUrl(world.username, world.media, params, ajax,
                           ak[1], ak[2], aws[1], aws[2])} :
      \E p \in {ProxySegment(ts_path, r, world.mresp, world.seg)} :
        /\ cache' = p.cache
        /\ link_cache' = p.link_cache
        /\ last' = [op |-> "proxy_segment", ts_path |-> ts_path, resp |-> p.resp,
                    master |-> p.master, fetches |-> p.fetches,
                    hdntl_prefix |-> p.hdntl_prefix, real_ts_url |-> p.real_ts_url]
        /\ hist' = IF p.fetches = 1 /\ MASTER_URL_KEY \in DOMAIN p.cache
                       /\ p.cache[MASTER_URL_KEY].t = now
                    THEN HistSet("cache", MASTER_URL_KEY, p.master)
                    ELSE hist
        /\ UNCHANGED <<now, first, world, calls>>

InitSegment ==
    /\ now = 0
    /\ cache = EmptyDict
    /\ link_cache = EmptyDict
    /\ last = Idle
    /\ hist = HistClear
    /\ first = EmptyDict
    /\ calls = NoCalls
    /\ world \in SegmentWorlds

NextSegment ==
    \/ Tick
    \/ ClearCache
    \/ \E ts_path \in TsPaths :
         \E params \in Answers(ParamsAnswers,
                               ~Truthy(GetFromLinkCache(CacheKey(KESHET_CHANNEL_URL, TRUE)))) :
           \E ajax \in Answers(AjaxAnswers, params = "vod") :
             \E ak \in AnswerPairs(world.username,
                                   ajax = "media" /\ Asks(world.media, "AKAMAI")) :
               \E aws \in AnswerPairs(world.username,
                          /\ ajax = "media"
                          /\ GetLink(world.media, "AKAMAI", TRUE, world.username,
                                     ak[1], ak[2]).ret = None
                          /\ Asks(world.media, "AWS")) :
                 SegmentRequest(ts_path, params, ajax, ak, aws)

SpecSegment == InitSegment /\ [][NextSegment]_vars

\* the master manifest with the variant line <auth-prefix>/index_2200.m3u8
GoodMaster ==
    Resp("200", <<<<"#", "EXTM3U">>, <<"#", "EXT-X-STREAM-INF">>, HdntlPrefix \o VARIANT_MARKER>>)

\* C17: a segment request for which the master URL resolves while the upstream
\* answers the fetch of the master manifest with a status other than 200 ends
\* with a 502 response, and leaves the content cache and the link cache as they
\* were before the request.
C17_Manifest502CachesUntouched ==
    [][/\ last'.op = "proxy_segment" /\ world.kind = "segment"
       /\ Truthy(last'.master)
       /\ world.mresp.status = "404"
       => /\ last'.resp.status = "502"
          /\ cache' = cache
          /\ link_cache' = link_cache]_vars

\* C18: when the master URL resolves, the upstream serves the master manifest
\* with the variant line <auth-prefix>/index_2200.m3u8 and answers the segment
\* fetch with 200, a segment request for path p fetches
\* scheme://host/<directory of the master URL>/p?<auth-prefix> and answers with
\* status 200, content type video/MP2T and the upstream's bytes.
C18_SegmentServed ==
    /\ last.op = "proxy_segment" /\ world.kind = "segment"
    /\ Truthy(last.master)
    /\ world.mresp = GoodMaster
    /\ world.seg.status = "200"
    => /\ last.resp = Response("200", "video/MP2T", world.seg.text)
       /\ \E host \in {"mako-streaming.akamaized.net", "mako-streaming.aws.cdn"} :
            last.real_ts_url = <<"http", "://", host, "/n12/hls/live", "/">> \o last.ts_path
                               \o <<"?">> \o HdntlPrefix

\* C19: when the upstream answers the segment fetch with a status other than
\* 200, the client gets that status, and no body.
C19_UpstreamStatusPropagated ==
    /\ last.op = "proxy_segment" /\ world.kind = "segment"
    /\ Truthy(last.master)
    /\ world.mresp = GoodMaster
    /\ world.seg.status \in {"404", "403"}
    => /\ last.resp.status = world.seg.status
       /\ last.resp.body = <<>>

\* C20: a segment request for which the master URL resolves fetches the master
\* manifest only when the content cache holds none younger than the manifest
\* time-to-live; after the request the cache holds the fetched manifest, and the
\* request has derived its auth prefix from it.
C20_OneManifestFetchPerTtl ==
    [][/\ last'.op = "proxy_segment" /\ world.kind = "segment"
       /\ Truthy(last'.master)
       /\ world.mresp = GoodMaster
       => /\ MASTER_URL_KEY \in DOMAIN cache'
          /\ cache'[MASTER_URL_KEY].data = world.mresp
          /\ last'.fetches = IF /\ MASTER_URL_KEY \in DOMAIN cache
                                /\ now - cache[MASTER_URL_KEY].t < 720
                             THEN 0 ELSE 1
          /\ last'.hdntl_prefix = Str(HdntlPrefix)]_vars

\* the segment URL is built on the master URL the request resolved
OnMaster(real_ts_url, master_url) ==
    /\ Len(real_ts_url) >= 3 /\ Len(master_url) >= 3
    /\ SubSeq(real_ts_url, 1, 3) = <<master_url[1], "://", UrlSplit(master_url).netloc>>

----------------------------------------------------------------------------
(* server.py: the /proxy endpoint, beside the segment endpoint *)

\* urlunsplit((scheme, netloc, base_path + variant_rel, "", ""))
UpstreamVariant(master_url, variant_rel) ==
    LET split == UrlSplit(master_url)
    IN <<split.scheme, "://", split.netloc>> \o BasePath(split.path) \o variant_rel

M3U8_MIMETYPE == "application/vnd.apple.mpegurl"

\* proxy_variant(), lines 198-241: r is what get_master_url() does, mresp and
\* vresp are the upstream's answers to the fetch of the master manifest and of
\* the variant manifest; fetched lists the URLs fetched.  An exception inside
\* the try block gives status 500.
ProxyVariant(r, mresp, vresp) ==
    LET done(resp, fetched) ==
            [resp |-> resp, master |-> r.ret, link_cache |-> r.link_cache, fetched |-> fetched]
        error(e, fetched) ==
            done(Response("500", "text/html", <<"Error in proxy_variant: ", e>>), fetched)
    IN IF r.ret.k = "raise" THEN error(r.ret.v[1], <<>>)
       ELSE IF r.ret.k = "None" THEN error("MissingSchema", <<>>)
       ELSE IF mresp.status = "error" THEN error("ConnectionError", <<r.ret.v>>)
       ELSE IF mresp.status # "200"
       THEN done(Response(mresp.status, "text/html", <<"Master returned ", mresp.status>>),
                 <<r.ret.v>>)
       ELSE LET variant_rel == ExtractFirstVariant(mresp.text)
            IN IF variant_rel.k = "raise" THEN error(variant_rel.v[1], <<r.ret.v>>)
               ELSE LET upstream_variant == UpstreamVariant(r.ret.v, variant_rel.v)
                    IN IF vresp.status = "error"
                       THEN error("ConnectionError", <<r.ret.v, upstream_variant>>)
                       ELSE IF vresp.status # "200"
                       THEN done(Response(vresp.status, "text/html",
                                          <<"Variant returned ", vresp.status>>),
                                 <<r.ret.v, upstream_variant>>)
                       ELSE done(Response("200", M3U8_MIMETYPE, RewriteVariantForTs(vresp.text)),
                                 <<r.ret.v, upstream_variant>>)

\* the variant manifests the upstream may serve
VariantResponses ==
    {Resp("200", <<"#", "EXTM3U", "\n", "#", "EXTINF:4,", "\n", "seg_1", ".ts", "\n">>),
     Resp("404", <<>>), Resp("error", <<>>)}

\* one run: the listing has both candidates, no credentials are configured, and
\* the upstream answers each of the three fetches in one way
ProxyWorlds ==
    {[kind |-> "proxy", username |-> "",
      media |-> <<Item("AKAMAI", AkamaiUrl), Item("AWS", AwsUrl)>>,
      mresp |-> m, vresp |-> v, seg |-> g] :
        m \in MasterResponses, v \in VariantResponses,
        g \in {Resp("200", <<"TS-BYTES">>), Resp("404", <<>>)}}

\* GET /proxy
ProxyVariantRequest(params, ajax, ak, aws) ==
    \E r \in {GetMasterUrl(world.username, world.media, params, ajax,
                           ak[1], ak[2], aws[1], aws[2])} :
      \E p \in {ProxyVariant(r, world.mresp, world.vresp)} :
        /\ link_cache' = p.link_cache
        /\ last' = [op |-> "proxy_variant", resp |-> p.resp, master |-> p.master,
                    fetched |-> p.fetched]
        /\ UNCHANGED <<now, cache, hist, first, world, calls>>

InitProxy ==
    /\ now = 0
    /\ cache = EmptyDict
    /\ link_cache = EmptyDict
    /\ last = Idle
    /\ hist = HistClear
    /\ first = EmptyDict
    /\ calls = NoCalls
    /\ world \in ProxyWorlds

NextProxy ==
    \/ Tick
    \/ \E params \in Answers(ParamsAnswers,
                             ~Truthy(GetFromLinkCache(CacheKey(KESHET_CHANNEL_URL, TRUE)))) :
         \E ajax \in Answers(AjaxAnswers, params = "vod") :
           \E ak \in AnswerPairs(world.username,
                                 ajax = "media" /\ Asks(world.media, "AKAMAI")) :
             \E aws \in AnswerPairs(world.username,
                        /\ ajax = "media"
                        /\ GetLink(world.media, "AKAMAI", TRUE, world.username,
                                   ak[1], ak[2]).ret = None
                        /\ Asks(world.media, "AWS")) :
               \/ ProxyVariantRequest(params, ajax, ak, aws)
               \/ \E ts_path \in TsPaths : SegmentRequest(ts_path, params, ajax, ak, aws)

SpecProxy == InitProxy /\ [][NextProxy]_vars

\* the master manifest has no line that does not start with # and ends with
\* index_2200.m3u8
NoVariantLine(master_text) ==
    \A i \in 1..Len(master_text) :
        \/ master_text[i] = <<>>
        \/ master_text[i][1] = "#"
        \/ master_text[i][Len(master_text[i])] # "index_2200.m3u8"

----------------------------------------------------------------------------
(* base_provider.py: generate_m3u8_entry and generate_playlist; a playlist is
   the sequence of its lines, each line a token sequence *)

USER_AGENT ==
    <<"Mozilla/5.0 (Windows NT 10.0; Win64; x64) AppleWebKit/537.36 (KHTML, like Gecko) Chrome/122.0.0.0 Safari/537.36">>

\* the Channel and VOD dataclasses
Channel(id, name, url, logo, provider, group_title) ==
    [id |-> id, name |-> name, url |-> url, logo |-> logo, provider |-> provider,
     group_title |-> group_title]
VOD(id, name, url, poster, provider) ==
    [id |-> id, name |-> name, url |-> url, poster |-> poster, provider |-> provider]

\* str.title() of a provider name
Title(provider_name) ==
    CASE provider_name = "reshet13" -> "Reshet13"
      [] provider_name = "keshet" -> "Keshet"
      [] provider_name = "kan" -> "Kan"
      [] provider_name = "tv" -> "Tv"
      [] OTHER -> provider_name

\* f"{self.provider_name}://"
ProviderScheme(provider_name) == <<provider_name, "://">>

\* BaseProvider.get_headers(channel_id)
BaseGetHeaders(channel_id) == [h \in {"User-Agent"} |-> USER_AGENT]

\* ' '.join(parts)
RECURSIVE JoinSpace(_)
JoinSpace(parts) ==
    IF parts = <<>> THEN <<>>
    ELSE IF Len(parts) = 1 THEN parts[1]
    ELSE parts[1] \o <<" ">> \o JoinSpace(Tail(parts))

\* generate_m3u8_entry(channel) with the headers get_headers(channel.id) gave:
\* the lines of the entry
GenerateM3u8Entry(provider_name, channel, headers) ==
    LET extinf_parts ==
            <<<<"#EXTINF:-1">>>>
            \o (IF channel.id # <<>> THEN <<<<"tvg-id=\"">> \o channel.id \o <<"\"">>>> ELSE <<>>)
            \o (IF channel.logo # <<>> THEN <<<<"tvg-logo=\"">> \o channel.logo \o <<"\"">>>> ELSE <<>>)
            \o (IF channel.group_title # <<>>
                THEN <<<<"group-title=\"">> \o channel.group_title \o <<"\"">>>>
                ELSE IF provider_name # ""
                THEN <<<<"group-title=\"", Title(provider_name), "\"">>>>
                ELSE <<>>)
    IN <<JoinSpace(extinf_parts) \o <<",">> \o channel.name>>
       \o (IF "User-Agent" \in DOMAIN headers
           THEN <<<<"#EXTVLCOPT:http-user-agent=">> \o headers["User-Agent"]>> ELSE <<>>)
       \o (IF "Referer" \in DOMAIN headers
           THEN <<<<"#EXTVLCOPT:http-referrer=">> \o headers["Referer"]>> ELSE <<>>)
       \o <<channel.url>>

\* the conversion of a VOD to a Channel in generate_playlist
VodChannel(provider_name, vod) ==
    Channel(<<provider_name, "-vod-">> \o vod.id, vod.name, vod.url, vod.poster,
            IF vod.provider # "" THEN vod.provider ELSE provider_name,
            <<Title(provider_name), " VOD">>)

PlaylistEntryKeepUnresolved(provider_name, channel, resolved_url, headers) ==
    GenerateM3u8Entry(provider_name,
                      IF Truthy(resolved_url) THEN [channel EXCEPT !.url = resolved_url.v]
                      ELSE channel,
                      headers)

\* one pass of a loop of generate_playlist: the lines the record adds, where
\* resolved_url is what resolve_url returned for a provider:// reference
PlaylistEntry(provider_name, channel, resolved_url, headers) ==
    IF StartsWith(channel.url, ProviderScheme(provider_name))
    THEN IF Truthy(resolved_url)
         THEN GenerateM3u8Entry(provider_name, [channel EXCEPT !.url = resolved_url.v], headers)
         ELSE <<>>
    ELSE GenerateM3u8Entry(provider_name, channel, headers)

RECURSIVE Flatten(_)
Flatten(seqs) == IF seqs = <<>> THEN <<>> ELSE Head(seqs) \o Flatten(Tail(seqs))

\* generate_playlist(prefer_http, include_vods): resolved[i] and headers[i] are
\* what resolve_url and get_headers return for the i-th record of the two
\* loops; an exception of resolve_url is not caught
GeneratePlaylist(provider_name, channels, vods, resolved, headers, include_vods) ==
    LET records == channels \o (IF include_vods
                                THEN [i \in 1..Len(vods) |-> VodChannel(provider_name, vods[i])]
                                ELSE <<>>)
        raising == {i \in 1..Len(records) :
                        /\ StartsWith(records[i].url, ProviderScheme(provider_name))
                        /\ resolved[i].k = "raise"}
    IN IF raising # {}
       THEN resolved[Min(raising)]
       ELSE [k |-> "str",
             v |-> <<<<"#EXTM3U">>>>
                   \o Flatten([i \in 1..Len(records) |->
                                 PlaylistEntry(provider_name, records[i], resolved[i], headers[i])])]

----------------------------------------------------------------------------
(* reshet13_module.py: the listings and the headers of the provider *)

\* CHANNEL_13_STREAMS: channel id -> stream_data["referer"] (every row has one)
CHANNEL_13_REFERER ==
    [id \in DOMAIN CHANNEL_13_STREAMS |->
        CASE id \in {<<"13b">>, <<"13c">>} -> HTTPS \o <<"13tv.co.il/live/">>
          [] id = <<"13b2">> -> HTTPS \o <<"13tv.co.il/allshows/2010263/">>
          [] id = <<"bb">> -> HTTPS \o <<"13tv.co.il/home/bb-livestream/">>
          [] id = <<"13comedy">> -> HTTPS \o <<"13tv.co.il/allshows/2605018/">>
          [] id = <<"13nofesh">> -> HTTPS \o <<"13tv.co.il/allshows/2395628/">>
          [] OTHER -> HTTPS \o <<"13tv.co.il/allshows/2395629/">>]

RESHET_LOGO == HTTPS \o <<"upload.wikimedia.org/wikipedia/he/thumb/2/2e/Reshet_13_logo.svg/1200px-Reshet_13_logo.svg.png">>

CHANNEL_LOGOS ==
    [id \in DOMAIN CHANNEL_13_STREAMS \cup {<<"13">>} |->
        CASE id = <<"bb">> -> HTTPS \o <<"img.mako.co.il/2023/01/15/bigblogo_aa.png">>
          [] id = <<"13comedy">> -> HTTPS \o <<"img.mako.co.il/2020/08/04/COMEDY_LOGO0_a.jpg">>
          [] id = <<"13nofesh">> -> HTTPS \o <<"img.mako.co.il/2020/08/04/ADVENTURE_LOGO_a.jpg">>
          [] id = <<"13reality">> -> HTTPS \o <<"img.mako.co.il/2020/08/04/REALITY_LOGO0_a.jpg">>
          [] OTHER -> RESHET_LOGO]

CHANNEL_NAMES ==
    [id \in DOMAIN CHANNEL_13_STREAMS \cup {<<"13">>} |->
        CASE id = <<"13">> -> <<"Channel 13">>
          [] id = <<"13b">> -> <<"Channel 13B">>
          [] id = <<"13c">> -> <<"Channel 13C">>
          [] id = <<"bb">> -> <<"Big Brother">>
          [] id = <<"13comedy">> -> <<"13 Comedy">>
          [] id = <<"13nofesh">> -> <<"13 Nofesh">>
          [] id = <<"13reality">> -> <<"13 Reality">>
          [] OTHER -> <<"13B2">>]

ReshetListedUnchecked(ids) == ids

\* for channel_id in [...]: if channel_id in self.CHANNEL_13_STREAMS
ReshetListed(ids) == SelectSeq(ids, LAMBDA id : id \in DOMAIN CHANNEL_13_STREAMS)

\* dict.get(channel_id, default)
DictGet(d, key, default) == IF key \in DOMAIN d THEN d[key] ELSE default

\* Reshet13Provider.get_channels()
ReshetGetChannels ==
    LET ids == ReshetListed(<<<<"13">>, <<"13b">>, <<"13c">>, <<"bb">>>>)
    IN [i \in 1..Len(ids) |->
            Channel(ids[i], DictGet(CHANNEL_NAMES, ids[i], <<"Channel ">> \o ids[i]),
                    RESHET13 \o ids[i], DictGet(CHANNEL_LOGOS, ids[i], <<>>), "reshet13", <<>>)]

\* Reshet13Provider.get_vods()
ReshetGetVods ==
    LET ids == ReshetListed(<<<<"13comedy">>, <<"13nofesh">>, <<"13reality">>, <<"13b2">>>>)
    IN [i \in 1..Len(ids) |->
            VOD(ids[i], DictGet(CHANNEL_NAMES, ids[i], <<"Channel ">> \o ids[i]),
                RESHET13 \o ids[i], DictGet(CHANNEL_LOGOS, ids[i], <<>>), "reshet13")]

\* Reshet13Provider.get_headers(channel_id)
ReshetGetHeaders(channel_id) ==
    IF channel_id # <<>> /\ channel_id \in DOMAIN CHANNEL_13_STREAMS
    THEN [h \in {"User-Agent", "Referer"} |->
            IF h = "Referer" THEN CHANNEL_13_REFERER[channel_id] ELSE USER_AGENT]
    ELSE BaseGetHeaders(channel_id)

----------------------------------------------------------------------------
(* playlists of two providers: Reshet13Provider, and a provider whose
   listings hold provider:// references that its resolve_url may fail on *)

TV == "tv"
TvRef(id) == ProviderScheme(TV) \o id
TvIds == {<<"a">>, <<"b">>, <<"v">>}

\* the records the second provider may list
TvChannelA == Channel(<<"a">>, <<"Channel A">>, TvRef(<<"a">>), <<>>, TV, <<>>)
TvChannelB == Channel(<<>>, <<"Channel B">>, TvRef(<<"b">>), HTTPS \o <<"img/b.png">>, TV, <<"News">>)
TvChannelD == Channel(<<"d">>, <<"Channel D">>, HTTPS \o <<"live.example/d.m3u8">>, <<>>, TV, <<>>)
TvVodV == VOD(<<"v">>, <<"Show V">>, TvRef(<<"v">>), HTTPS \o <<"img/v.png">>, "")
TvVodW == VOD(<<"w">>, <<"Show W">>, <<"other", "://", "w">>, <<>>, TV)

TvChannelLists ==
    {<<>>, <<TvChannelA>>, <<TvChannelA, TvChannelD>>, <<TvChannelD, TvChannelB>>,
     <<TvChannelA, TvChannelB>>, <<TvChannelB, TvChannelD, TvChannelA>>}
TvVodLists == {<<>>, <<TvVodV>>, <<TvVodW, TvVodV>>}

\* what resolve_url returns for a reference: a URL, None, or an empty string
ResolveOutcomes == {"url", "None", "empty"}

PlaylistWorlds ==
    {[kind |-> "reshet13"]}
    \cup {[kind |-> "provider", provider_name |-> TV, channels |-> c, vods |-> v, resolves |-> r] :
            c \in TvChannelLists, v \in TvVodLists, r \in [TvIds -> ResolveOutcomes]}

\* self.provider_name
ProviderName == IF world.kind = "reshet13" THEN "reshet13" ELSE world.provider_name

\* self.get_channels()
GetChannels == IF world.kind = "reshet13" THEN ReshetGetChannels ELSE world.channels

\* self.get_vods()
GetVods == IF world.kind = "reshet13" THEN ReshetGetVods ELSE world.vods

\* self.resolve_url(url, prefer_http=prefer_http)
ResolveUrl(url, prefer_http) ==
    IF world.kind = "reshet13" THEN ReshetResolveUrl(url, prefer_http).ret
    ELSE LET id == Replace(url, ProviderScheme(TV), <<>>)
         IN IF id \notin TvIds \/ world.resolves[id] = "None" THEN None
            ELSE IF world.resolves[id] = "empty" THEN Str(<<>>)
            ELSE Str((IF prefer_http THEN HTTP ELSE HTTPS) \o <<"cdn.example/">> \o id)

\* self.get_headers(channel_id)
GetHeaders(channel_id) ==
    IF world.kind = "reshet13" THEN ReshetGetHeaders(channel_id) ELSE BaseGetHeaders(channel_id)

\* the records of the two loops of generate_playlist, in order
PlaylistRecords(include_vods) ==
    GetChannels \o (IF include_vods
                    THEN [i \in 1..Len(GetVods) |-> VodChannel(ProviderName, GetVods[i])]
                    ELSE <<>>)

IsReference(url) == StartsWith(url, ProviderScheme(ProviderName))

\* the link cache after the resolve calls of one generate_playlist: the
\* records of a listing have distinct references, so each call reads and
\* writes a key of its own
PlaylistLinkCache(records, prefer_http) ==
    IF world.kind # "reshet13" THEN link_cache
    ELSE LET refs == {records[i].url : i \in {j \in 1..Len(records) : IsReference(records[j].url)}}
             after(url) == ReshetResolveUrl(url, prefer_http).link_cache
             written == {url \in refs : CacheKey(url, prefer_http) \in DOMAIN after(url)}
         IN [k \in DOMAIN link_cache \cup {CacheKey(url, prefer_http) : url \in written} |->
                IF \E url \in written : k = CacheKey(url, prefer_http)
                THEN after(CHOOSE url \in written : k = CacheKey(url, prefer_http))[k]
                ELSE link_cache[k]]

\* provider.generate_playlist(prefer_http=..., include_vods=...)
GeneratePlaylistCall(prefer_http, include_vods) ==
    \E records \in {PlaylistRecords(include_vods)} :
    \E resolved \in {[i \in 1..Len(records) |->
                        IF IsReference(records[i].url)
                        THEN ResolveUrl(records[i].url, prefer_http) ELSE None]} :
    \E headers \in {[i \in 1..Len(records) |-> GetHeaders(records[i].id)]} :
    \E p \in {GeneratePlaylist(ProviderName, GetChannels, GetVods, resolved, headers,
                               include_vods)} :
        /\ link_cache' = PlaylistLinkCache(records, prefer_http)
        /\ last' = [op |-> "generate_playlist", prefer_http |-> prefer_http,
                    include_vods |-> include_vods, ret |-> p]
        /\ UNCHANGED <<now, cache, hist, first, world, calls>>

InitPlaylist ==
    /\ now = 0
    /\ cache = EmptyDict
    /\ link_cache = EmptyDict
    /\ last = Idle
    /\ hist = HistClear
    /\ first = EmptyDict
    /\ calls = NoCalls
    /\ world \in PlaylistWorlds

NextPlaylist ==
    \/ Tick
    \/ ClearCache
    \/ \E prefer_http \in BOOLEAN, include_vods \in BOOLEAN :
            GeneratePlaylistCall(prefer_http, include_vods)

SpecPlaylist == InitPlaylist /\ [][NextPlaylist]_vars

\* the records of a listing that yield an entry: those that need no
\* resolution and those whose reference resolves
Resolves(channel, prefer_http) ==
    IsReference(channel.url) => Truthy(ResolveUrl(channel.url, prefer_http))
KeptRecords(include_vods, prefer_http) ==
    SelectSeq(PlaylistRecords(include_vods), LAMBDA c : Resolves(c, prefer_http))

\* the URL line of the entry of a record
EntryUrl(channel, prefer_http) ==
    IF IsReference(channel.url) THEN ResolveUrl(channel.url, prefer_http).v ELSE channel.url

\* C22: generate_playlist skips every channel or VOD whose reference fails to
\* resolve and goes on with the rest: it returns a playlist (it does not
\* raise) whose first line is #EXTM3U, followed, in table order, by one entry
\* (metadata line, header line, URL line) for each record that resolved or
\* needed no resolution, and no line of it is an unresolved provider://
\* reference.
C22_PlaylistSkipsUnresolved ==
    last.op = "generate_playlist" /\ world.kind = "provider" =>
        LET kept == KeptRecords(last.include_vods, last.prefer_http)
            lines == last.ret.v
        IN /\ last.ret.k = "str"
           /\ Len(lines) = 1 + 3 * Len(kept)
           /\ lines[1] = <<"#EXTM3U">>
           /\ \A i \in 1..Len(kept) :
                /\ StartsWith(lines[3 * i - 1], <<"#EXTINF:-1">>)
                /\ LET l == lines[3 * i - 1]
                   IN SubSeq(l, Len(l) - Len(kept[i].name), Len(l)) = <<",">> \o kept[i].name
                /\ StartsWith(lines[3 * i], <<"#EXTVLCOPT:http-user-agent=">>)
                /\ lines[3 * i + 1] = EntryUrl(kept[i], last.prefer_http)
           /\ \A j \in 1..Len(lines) : ~StartsWith(lines[j], ProviderScheme(ProviderName))

\* a playlist of a listing in which the reference of one record failed to
\* resolve and a later record resolved and was emitted
C22_Witness ==
    /\ last.op = "generate_playlist" /\ world.kind = "provider"
    /\ LET records == PlaylistRecords(last.include_vods)
       IN \E i, j \in 1..Len(records) :
            /\ i < j
            /\ ~Resolves(records[i], last.prefer_http)
            /\ IsReference(records[j].url) /\ Resolves(records[j], last.prefer_http)
            /\ last.ret.k = "str"
            /\ last.ret.v[Len(last.ret.v)] = EntryUrl(records[j], last.prefer_http)

\* the URL lines of a playlist, in order
UrlLines(lines) == SelectSeq(lines, LAMBDA l : l # <<>> /\ l[1] \in {"http", "https"})

\* the identifier of a reshet13:// reference
ReshetId(url) == Replace(url, RESHET13, <<>>)

\* C30: every channel of Reshet's get_channels and every VOD of its get_vods
\* carries a reshet13:// reference whose identifier is in the stream table
\* ("13" is never listed), so each resolves to a URL under either preference,
\* and generate_playlist emits one entry per listed record, in order, with
\* none skipped.
C30_ReshetListingsResolve ==
    world.kind = "reshet13" =>
        /\ \A include_vods \in BOOLEAN :
             LET records == PlaylistRecords(include_vods)
             IN \A i \in 1..Len(records) :
                    /\ StartsWith(records[i].url, RESHET13)
                    /\ ReshetId(records[i].url) \in DOMAIN CHANNEL_13_STREAMS
                    /\ ReshetId(records[i].url) # <<"13">>
                    /\ \A prefer_http \in BOOLEAN :
                            Truthy(ReshetResolveUrl(records[i].url, prefer_http).ret)
        /\ Len(GetChannels) = 3 /\ Len(GetVods) = 4
        /\ last.op = "generate_playlist" =>
             LET records == PlaylistRecords(last.include_vods)
             IN /\ last.ret.k = "str"
                /\ UrlLines(last.ret.v) =
                      [i \in 1..Len(records) |->
                          ReshetStreamUrl(CHANNEL_13_STREAMS[ReshetId(records[i].url)],
                                          last.prefer_http)]

\* a Reshet playlist with VODs: seven entries, the last one 13B2's
C30_Witness ==
    /\ world.kind = "reshet13"
    /\ last.op = "generate_playlist" /\ last.include_vods /\ ~last.prefer_http
    /\ Len(UrlLines(last.ret.v)) = 7
    /\ last.ret.v[Len(last.ret.v)] = CHANNEL_13_STREAMS[<<"13b2">>]
    /\ DOMAIN link_cache = {CacheKey(RESHET13 \o id, FALSE) : id \in DOMAIN CHANNEL_13_STREAMS}

----------------------------------------------------------------------------
(* resolve_url called from concurrent threads on one provider object: no lock
   guards the link cache, so the calls interleave between the lookup, the
   resolution, the evaluation of the entry {'url', 't'} and its assignment.
   A dict lookup and a dict assignment are single steps of the interpreter. *)

NumCallers == 2
Callers == 1..NumCallers

\* one run: the provider, the reference and the preference all callers use
RaceWorlds ==
    {[kind |-> "race", provider |-> "reshet13", url |-> u, prefer_http |-> p,
      username |-> "", media |-> <<>>] :
        u \in {RESHET13 \o <<"13b">>, RESHET13 \o <<"nope">>}, p \in BOOLEAN}
    \cup {[kind |-> "race", provider |-> "keshet", url |-> KESHET_CHANNEL_URL, prefer_http |-> p,
           username |-> "", media |-> <<Item("AKAMAI", AkamaiUrl), Item("AWS", AwsUrl)>>] :
            p \in BOOLEAN}

\* the frame of a call: where it stands, its preference, its result so far
\* and the entry it has built
Frame(pc, prefer_http, ret, hit, entry) ==
    [pc |-> pc, prefer_http |-> prefer_http, ret |-> ret, hit |-> hit, entry |-> entry]

\* dict without a key
DictDel(d, key) == [x \in DOMAIN d \ {key} |-> d[x]]

\* Reshet13Provider.resolve_url after a miss of the lookup: the URL to store,
\* or None
ReshetResolveMiss(url, prefer_http) ==
    IF StartsWith(url, RESHET13)
    THEN LET channel_id == Replace(url, RESHET13, <<>>)
         IN IF channel_id \notin DOMAIN CHANNEL_13_STREAMS THEN None
            ELSE Str(ReshetStreamUrl(CHANNEL_13_STREAMS[channel_id], prefer_http))
    ELSE None

\* KeshetProvider._play_item after a miss of the lookup: the link to store, None
\* or the exception that leaves the method
PlayItemMiss(prefer_http, username, media, params, ajax, ak1, ak2, aws1, aws2) ==
    IF params \in {"fail", "empty"} THEN None
    ELSE IF params = "scalar" THEN Raise("TypeError")
    ELSE IF params \in {"novod", "noids"} THEN None
    ELSE Play(media, prefer_http, username, ajax, ak1, ak2, aws1, aws2).ret

\* cached_url = self._get_from_link_cache(cache_key); if cached_url: return cached_url
RaceLookup(c, prefer_http) ==
    /\ c \notin DOMAIN calls
    /\ \E cached_url \in {GetFromLinkCache(CacheKey(world.url, prefer_http))} :
         calls' = DictSet(calls, c,
                          IF Truthy(cached_url)
                          THEN Frame("return", prefer_http, cached_url, TRUE, <<>>)
                          ELSE Frame("resolve", prefer_http, None, FALSE, <<>>))
    /\ UNCHANGED <<now, cache, link_cache, last, hist, first, world>>

\* the resolution between the lookup and the store
RaceResolved(c, ret) ==
    /\ calls' = [calls EXCEPT ![c].ret = ret,
                              ![c].pc = IF Truthy(ret) THEN "stamp" ELSE "return"]
    /\ UNCHANGED <<now, cache, link_cache, last, hist, first, world>>

RaceResolveReshet(c) ==
    /\ c \in DOMAIN calls /\ calls[c].pc = "resolve"
    /\ world.provider = "reshet13"
    /\ RaceResolved(c, ReshetResolveMiss(world.url, calls[c].prefer_http))

RaceResolveKeshet(c, params, ajax, ak, aws) ==
    /\ c \in DOMAIN calls /\ calls[c].pc = "resolve"
    /\ world.provider = "keshet"
    /\ \E ret \in {PlayItemMiss(calls[c].prefer_http, world.username, world.media,
                                params, ajax, ak[1], ak[2], aws[1], aws[2])} :
            RaceResolved(c, ret)

\* _set_link_cache: the dict {'url': url, 't': time.time()} is evaluated
RaceStamp(c) ==
    /\ c \in DOMAIN calls /\ calls[c].pc = "stamp"
    /\ calls' = [calls EXCEPT ![c].entry = [url |-> calls[c].ret, t |-> now],
                              ![c].pc = "store"]
    /\ UNCHANGED <<now, cache, link_cache, last, hist, first, world>>

\* _set_link_cache: self._link_cache[key] = <the dict>
RaceStore(c) ==
    /\ c \in DOMAIN calls /\ calls[c].pc = "store"
    /\ \E key \in {CacheKey(world.url, calls[c].prefer_http)} :
         /\ link_cache' = DictSet(link_cache, key, calls[c].entry)
         /\ hist' = [hist EXCEPT !["link"] =
                        DictSet(hist["link"], key, [v |-> calls[c].entry.url, t |-> calls[c].entry.t])]
    /\ calls' = [calls EXCEPT ![c].pc = "return"]
    /\ UNCHANGED <<now, cache, last, first, world>>

\* the call returns (or raises) to its caller
RaceReturn(c) ==
    /\ c \in DOMAIN calls /\ calls[c].pc = "return"
    /\ last' = [op |-> "resolve_url", caller |-> c, url |-> world.url,
                prefer_http |-> calls[c].prefer_http, ret |-> calls[c].ret,
                hit |-> calls[c].hit, others |-> Cardinality(DOMAIN calls) - 1]
    /\ calls' = DictDel(calls, c)
    /\ UNCHANGED <<now, cache, link_cache, hist, first, world>>

InitRace ==
    /\ now = 0
    /\ cache = EmptyDict
    /\ link_cache = EmptyDict
    /\ last = Idle
    /\ hist = HistClear
    /\ first = EmptyDict
    /\ calls = NoCalls
    /\ world \in RaceWorlds

NextRace ==
    \/ Tick
    \/ \E c \in Callers : RaceLookup(c, world.prefer_http)
    \/ \E c \in Callers : RaceResolveReshet(c)
    \/ \E c \in Callers :
         \E params \in ParamsAnswers :
           \E ajax \in Answers(AjaxAnswers, params = "vod") :
             \E ak \in AnswerPairs(world.username,
                                   ajax = "media" /\ Asks(world.media, "AKAMAI")) :
               \E aws \in AnswerPairs(world.username,
                        /\ ajax = "media"
                        /\ c \in DOMAIN calls
                        /\ GetLink(world.media, "AKAMAI", calls[c].prefer_http, world.username,
                                   ak[1], ak[2]).ret = None
                        /\ Asks(world.media, "AWS")) :
                 RaceResolveKeshet(c, params, ajax, ak, aws)
    \/ \E c \in Callers : RaceStamp(c)
    \/ \E c \in Callers : RaceStore(c)
    \/ \E c \in Callers : RaceReturn(c)

SpecRace == InitRace /\ [][NextRace]_vars

\* the preference of a cache key of the run's reference
KeyPreference(key) == key = CacheKey(world.url, TRUE)

\* every entry of the link cache has its url and its timestamp, a URL and the
\* time of a store, and is the last entry assigned under its key
RaceEntriesWellFormed ==
    \A key \in DOMAIN link_cache :
        /\ DOMAIN link_cache[key] = {"url", "t"}
        /\ Truthy(link_cache[key].url)
        /\ link_cache[key].t \in 0..now
        /\ key \in DOMAIN hist["link"]
        /\ hist["link"][key] = [v |-> link_cache[key].url, t |-> link_cache[key].t]

\* the static-table provider: the entry is the one a single resolve stores
RaceStaticValue ==
    world.provider = "reshet13" =>
        \A key \in DOMAIN link_cache :
            link_cache[key].url = ReshetResolveMiss(world.url, KeyPreference(key))

\* a call that returns while another is in progress returns a URL or None
RaceResultsValid ==
    last.op = "resolve_url" /\ last.others >= 1 =>
        /\ last.ret.k # "raise"
        /\ last.ret.k = "str" => last.ret.v # <<>> /\ last.ret.v[1] \in {"http", "https"}
        /\ world.provider = "reshet13" =>
              last.ret = ReshetResolveMiss(world.url, last.prefer_http)

\* C23: when resolve calls for the same reference and preference interleave
\* on one provider, every call returns a URL or None and none raises, the
\* link cache holds under the key one entry with url and timestamp of the
\* same store, the last one made, and for the static-table provider that is
\* the entry a single resolve would store.
C23_InterleavedResolves ==
    /\ world.kind = "race" => RaceResultsValid
    /\ world.kind = "race" => RaceEntriesWellFormed
    /\ world.kind = "race" => RaceStaticValue

====
